---- MODULE Spec2Model ----
(***************************************************************************)
(* Error detection and frontend/backend correlation engine of the bug      *)
(* analysis agent: LogScanner (scanner.py) and the correlation matcher and *)
(* table builder of BugAnalyzer (analyzer.py).                             *)
(*                                                                         *)
(* Text is modelled as a sequence of tokens (a token is a maximal piece of *)
(* a line that the regular expressions of the code treat as a unit), time  *)
(* as whole seconds, Python's None as the string NoneStr.                  *)
(***************************************************************************)
EXTENDS Integers, Sequences, FiniteSets, TLC

VARIABLES
    frontend_errors,              \* argument of _create_direct_correlation_mappings
    backend_logs,                 \* argument of _create_direct_correlation_mappings
    max_correlations_per_error,   \* argument of _create_direct_correlation_mappings
    correlations,                 \* the list _create_direct_correlation_mappings returns
    global_deduplication,         \* argument of export_correlations_to_csv
    pc,                           \* "idle", "start", then the call made: "mappings", "export", "again"
    compiled_patterns,            \* LogScanner.compiled_patterns: the ordered rule list
    lines,                        \* scan_for_errors: log_content.split('\n')
    line_num,                     \* scan_for_errors: index of the next line (0-based)
    errors,                       \* scan_for_errors: the records found so far
    seen_errors,                  \* scan_for_errors: the signatures seen so far
    scan_pc,                      \* position of the scan: "idle", "loop", "done"
    calls,                        \* the locals of each call of scan_for_errors in progress
    request_id_context_lines,     \* argument of scan_for_errors
    logs_client,                  \* CloudWatchFinder.logs_client, NoneStr without credentials
    log_group,                    \* the log group searched, NoneStr if none is configured
    time_window_minutes,          \* argument of find_correlating_logs
    error_index,                  \* find_correlating_logs: errors looked up so far
    lookup_logs,                  \* find_correlating_logs: backend_logs, the entries found so far
    searches,                     \* the searches started, each with its outcome
    lookup_status,                \* "idle", "running", "returned", "skipped", "raised"
    analysis_jobs,                \* api.analysis_jobs: the job entries by analysis id
    background_tasks,             \* the run_analysis tasks added, each "queued", "returned" or "raised"
    notifications,                \* the calls of webhook_sender.send_analysis_complete
    utcnow,                       \* datetime.utcnow(), in ticks
    retries_arg,                  \* WebhookSender(retries=...), NoneInt when not passed
    retries,                      \* WebhookSender.retries
    is_lark_webhook,              \* WebhookSender.is_lark_webhook
    attempt,                      \* _send_with_retry: the loop index
    responses,                    \* _send_with_retry: how each requests.post made so far ended
    send_pc,                      \* "idle", "loop", "returned"
    send_result,                  \* the value _send_with_retry returned, NoneStr before
    query,                        \* _search_by_request_id_insights: request_id, start and end time
    elapsed_time,                 \* _search_by_request_id_insights: seconds waited so far
    polls,                        \* the number of get_query_results calls made
    query_status,                 \* the status of the last poll, or how a client call raised
    poll_pc,                      \* "idle", "start", "poll", "returned"
    poll_result                   \* the list _search_by_request_id_insights returned

corr_vars == <<frontend_errors, backend_logs, max_correlations_per_error, correlations,
               global_deduplication, pc>>
scan_vars == <<compiled_patterns, lines, line_num, errors, seen_errors, scan_pc,
               request_id_context_lines, calls>>
lookup_vars == <<logs_client, log_group, time_window_minutes, error_index, lookup_logs,
                 searches, lookup_status>>
job_vars == <<analysis_jobs, background_tasks, notifications, utcnow>>
send_vars == <<retries_arg, retries, is_lark_webhook, attempt, responses, send_pc, send_result>>
poll_vars == <<query, elapsed_time, polls, query_status, poll_pc, poll_result>>
vars == <<frontend_errors, backend_logs, max_correlations_per_error, correlations,
          global_deduplication, pc,
          compiled_patterns, lines, line_num, errors, seen_errors, scan_pc,
          request_id_context_lines, calls,
          logs_client, log_group, time_window_minutes, error_index, lookup_logs,
          searches, lookup_status,
          analysis_jobs, background_tasks, notifications, utcnow,
          retries_arg, retries, is_lark_webhook, attempt, responses, send_pc, send_result,
          query, elapsed_time, polls, query_status, poll_pc, poll_result>>

(***************************************************************************)
(* Bounds of the model.                                                    *)
(***************************************************************************)
MaxErrors == 2
MaxPool == 2
MaxN == 2
MaxLines == 3
MaxCustom == 1
MaxCalls == 3
MaxRequests == 2
MaxClock == 2
MaxRetries == 2

(***************************************************************************)
(* Program constants.                                                      *)
(***************************************************************************)
DEFAULT_TIME_WINDOW_MINUTES == 120
UTC_OFFSET_HOURS == 4
EDT_OFFSET_HOURS == 4
DEFAULT_MAX_CORRELATIONS == 3
TIME_BASED_LIMIT == 3

NoneStr == "<None>"
EmptyStr == ""
Space == " "

(***************************************************************************)
(* Generic sequence helpers.                                               *)
(***************************************************************************)
Range(s) == {s[i] : i \in 1..Len(s)}

Take(s, n) == IF n >= Len(s) THEN s ELSE SubSeq(s, 1, n)

RECURSIVE SeqsUpTo(_, _)
SeqsUpTo(S, n) ==
    IF n = 0 THEN {<<>>}
    ELSE LET shorter == SeqsUpTo(S, n - 1)
         IN  shorter \cup {Append(s, x) : s \in {t \in shorter : Len(t) = n - 1}, x \in S}

Abs(x) == IF x < 0 THEN -x ELSE x

\* str.strip(): leading and trailing whitespace removed.
RECURSIVE LStrip(_)
LStrip(s) == IF s # <<>> /\ Head(s) = Space THEN LStrip(Tail(s)) ELSE s

RECURSIVE RStrip(_)
RStrip(s) ==
    IF s # <<>> /\ s[Len(s)] = Space THEN RStrip(SubSeq(s, 1, Len(s) - 1)) ELSE s

Strip(s) == RStrip(LStrip(s))

\* ' '.join(s.split()): runs of whitespace collapsed to one blank, ends stripped.
RECURSIVE CollapseRuns(_)
CollapseRuns(s) ==
    IF Len(s) < 2 THEN s
    ELSE IF s[1] = Space /\ s[2] = Space THEN CollapseRuns(Tail(s))
    ELSE <<s[1]>> \o CollapseRuns(Tail(s))

NormalizeWhitespace(s) == CollapseRuns(Strip(s))

(***************************************************************************)
(* Timestamps.  A frontend timestamp is the raw substring the scanner      *)
(* extracted: its format and the wall-clock instant it denotes (seconds).  *)
(* A backend timestamp is a datetime: seconds on the same scale.           *)
(***************************************************************************)
NoneTs == [fmt |-> "none", secs |-> 0]

\* The strptime formats _parse_timestamp tries, in order.
formats ==
    <<"%Y-%m-%dT%H:%M:%S.%fZ", "%Y-%m-%dT%H:%M:%SZ", "%Y-%m-%dT%H:%M:%S.%f",
      "%Y-%m-%dT%H:%M:%S", "%Y-%m-%d %H:%M:%S.%f", "%Y-%m-%d %H:%M:%S",
      "%m-%d %H:%M:%S", "%H:%M:%S.%f", "%H:%M:%S", "%b %d %H:%M:%S">>

NoTime == [ok |-> FALSE, t |-> 0]

\* Mutant: any timestamp string is taken as a datetime.
_parse_timestamp_Lenient(timestamp_str) ==
    IF timestamp_str = NoneTs THEN NoTime
    ELSE [ok |-> TRUE, t |-> timestamp_str.secs]

\* CloudWatchFinder._parse_timestamp: None for None or for a string no format
\* accepts, else the naive datetime.
_parse_timestamp(timestamp_str) ==
    IF timestamp_str = NoneTs THEN NoTime
    ELSE IF \E i \in 1..Len(formats) : formats[i] = timestamp_str.fmt
         THEN [ok |-> TRUE, t |-> timestamp_str.secs]
         ELSE NoTime

\* frontend_time + timedelta(hours=4)
to_utc(frontend_time) == frontend_time + UTC_OFFSET_HOURS * 3600

time_window_seconds == DEFAULT_TIME_WINDOW_MINUTES * 60

(***************************************************************************)
(* The matcher: BugAnalyzer._check_correlation and                         *)
(* BugAnalyzer._find_correlated_backends.                                  *)
(***************************************************************************)
NoInfo ==
    [method |-> "none", matched_request_id |-> NoneStr,
     has_time_diff |-> FALSE, time_diff_seconds |-> 0]

RequestIdMatch(rid) ==
    [method |-> "request_id_match", matched_request_id |-> rid,
     has_time_diff |-> FALSE, time_diff_seconds |-> 0]

TimeBased(diff) ==
    [method |-> "time_based", matched_request_id |-> NoneStr,
     has_time_diff |-> TRUE, time_diff_seconds |-> diff]

Truthy(str) == str # NoneStr /\ str # EmptyStr

\* Mutant: the time window is tried before the request ids.
_check_correlation_TimeFirst(frontend_error, backend_log) ==
    LET frontend_time == _parse_timestamp(frontend_error.timestamp)
        time_diff == Abs(backend_log.timestamp - to_utc(frontend_time.t))
    IN  IF frontend_error.timestamp # NoneTs /\ frontend_time.ok /\ time_diff <= time_window_seconds
        THEN TimeBased(time_diff)
        ELSE IF /\ Truthy(backend_log.request_id)
                /\ \/ backend_log.request_id \in Range(frontend_error.request_ids)
                   \/ /\ Truthy(frontend_error.request_id)
                      /\ frontend_error.request_id = backend_log.request_id
        THEN RequestIdMatch(backend_log.request_id)
        ELSE NoInfo

\* Mutant: the border of the window is left out (time_diff < time_window_seconds).
_check_correlation_StrictWindow(frontend_error, backend_log) ==
    IF /\ Truthy(backend_log.request_id)
       /\ \/ backend_log.request_id \in Range(frontend_error.request_ids)
          \/ /\ Truthy(frontend_error.request_id)
             /\ frontend_error.request_id = backend_log.request_id
    THEN RequestIdMatch(backend_log.request_id)
    ELSE LET frontend_time == _parse_timestamp(frontend_error.timestamp)
         IN  IF frontend_error.timestamp # NoneTs /\ frontend_time.ok
             THEN LET frontend_utc == to_utc(frontend_time.t)
                      time_diff == Abs(backend_log.timestamp - frontend_utc)
                  IN  IF time_diff < time_window_seconds
                      THEN TimeBased(time_diff)
                      ELSE NoInfo
             ELSE NoInfo

_check_correlation(frontend_error, backend_log) ==
    IF /\ Truthy(backend_log.request_id)
       /\ \/ backend_log.request_id \in Range(frontend_error.request_ids)
          \/ /\ Truthy(frontend_error.request_id)
             /\ frontend_error.request_id = backend_log.request_id
    THEN RequestIdMatch(backend_log.request_id)
    ELSE LET frontend_time == _parse_timestamp(frontend_error.timestamp)
         IN  IF frontend_error.timestamp # NoneTs /\ frontend_time.ok
             THEN LET frontend_utc == to_utc(frontend_time.t)
                      time_diff == Abs(backend_log.timestamp - frontend_utc)
                  IN  IF time_diff <= time_window_seconds
                      THEN TimeBased(time_diff)
                      ELSE NoInfo
             ELSE NoInfo

\* Mutant: both methods get the same score.
method_score_Flat(correlation_info) ==
    CASE correlation_info.method = "request_id_match" -> 1
      [] correlation_info.method = "time_based" -> 1
      [] OTHER -> 0

\* method_priority.get(method, 0)
method_score(correlation_info) ==
    CASE correlation_info.method = "request_id_match" -> 2
      [] correlation_info.method = "time_based" -> 1
      [] OTHER -> 0

\* The substrings of log_level_priority that the lower-cased token holds.
LevelWords(token) ==
    CASE token \in {"ERROR", "error"} -> {"error"}
      [] token \in {"WARN", "warn"} -> {"warn"}
      [] token \in {"WARNING", "warning"} -> {"warn", "warning"}
      [] token \in {"INFO", "info"} -> {"info"}
      [] token \in {"DEBUG", "debug"} -> {"debug"}
      [] OTHER -> {}

MessageHas(message, word) == \E i \in 1..Len(message) : word \in LevelWords(message[i])

\* Mutant: the level of the message is left out of the sort key.
log_level_Flat(message) == 0

\* The first level of log_level_priority (in dict order) found in the message.
log_level(message) ==
    CASE MessageHas(message, "error") -> 4
      [] MessageHas(message, "warn") -> 3
      [] MessageHas(message, "warning") -> 3
      [] MessageHas(message, "info") -> 2
      [] MessageHas(message, "debug") -> 1
      [] OTHER -> 0

\* correlation_priority(a) > correlation_priority(b) on the tuples
\* (method_score, -time_diff, log_level), time_diff defaulting to infinity.
NegTimeDiffGreater(a, b) ==
    IF ~a.has_time_diff THEN FALSE
    ELSE IF ~b.has_time_diff THEN TRUE
    ELSE a.time_diff_seconds < b.time_diff_seconds

NegTimeDiffEqual(a, b) ==
    IF a.has_time_diff /\ b.has_time_diff THEN a.time_diff_seconds = b.time_diff_seconds
    ELSE a.has_time_diff = b.has_time_diff

correlation_priority_greater(x, y) ==
    \/ method_score(x.info) > method_score(y.info)
    \/ /\ method_score(x.info) = method_score(y.info)
       /\ \/ NegTimeDiffGreater(x.info, y.info)
          \/ /\ NegTimeDiffEqual(x.info, y.info)
             /\ log_level(x.log.message) > log_level(y.log.message)

\* list.sort(key=correlation_priority, reverse=True): descending and stable.
RECURSIVE InsertByPriority(_, _)
InsertByPriority(sorted, x) ==
    IF sorted = <<>> THEN <<x>>
    ELSE IF correlation_priority_greater(x, Head(sorted)) THEN <<x>> \o sorted
    ELSE <<Head(sorted)>> \o InsertByPriority(Tail(sorted), x)

RECURSIVE SortByPriority(_)
SortByPriority(s) ==
    IF s = <<>> THEN <<>>
    ELSE InsertByPriority(SortByPriority(SubSeq(s, 1, Len(s) - 1)), s[Len(s)])

\* The (backend_log, correlation_info) pairs with a correlation, in pool order.
RECURSIVE CorrelatedPairs(_, _)
CorrelatedPairs(frontend_error, logs) ==
    IF logs = <<>> THEN <<>>
    ELSE LET info == _check_correlation(frontend_error, Head(logs))
             rest == CorrelatedPairs(frontend_error, Tail(logs))
         IN  IF info # NoInfo THEN <<[log |-> Head(logs), info |-> info]>> \o rest
             ELSE rest

_find_correlated_backends(frontend_error, logs, max_correlations) ==
    Take(SortByPriority(CorrelatedPairs(frontend_error, logs)), max_correlations)

(***************************************************************************)
(* The table builder: BugAnalyzer._find_time_based_backends,               *)
(* _calculate_time_diff and _create_direct_correlation_mappings.           *)
(***************************************************************************)
\* The backend logs within the window of the parsed frontend time, in pool order.
RECURSIVE WithinWindow(_, _)
WithinWindow(frontend_time, logs) ==
    IF logs = <<>> THEN <<>>
    ELSE LET rest == WithinWindow(frontend_time, Tail(logs))
         IN  IF Abs(Head(logs).timestamp - frontend_time) <= time_window_seconds
             THEN <<Head(logs)>> \o rest
             ELSE rest

\* list.sort(key=abs(log.timestamp - frontend_time)): ascending and stable.
RECURSIVE InsertByProximity(_, _, _)
InsertByProximity(frontend_time, sorted, x) ==
    IF sorted = <<>> THEN <<x>>
    ELSE IF Abs(x.timestamp - frontend_time) < Abs(Head(sorted).timestamp - frontend_time)
         THEN <<x>> \o sorted
         ELSE <<Head(sorted)>> \o InsertByProximity(frontend_time, Tail(sorted), x)

RECURSIVE SortByProximity(_, _)
SortByProximity(frontend_time, s) ==
    IF s = <<>> THEN <<>>
    ELSE InsertByProximity(frontend_time,
                           SortByProximity(frontend_time, SubSeq(s, 1, Len(s) - 1)),
                           s[Len(s)])

_find_time_based_backends(frontend_error, logs) ==
    LET frontend_time == _parse_timestamp(frontend_error.timestamp)
    IN  IF frontend_error.timestamp = NoneTs \/ ~frontend_time.ok THEN <<>>
        ELSE Take(SortByProximity(frontend_time.t, WithinWindow(frontend_time.t, logs)),
                  TIME_BASED_LIMIT)

\* The values of the time_diff_seconds column: '', a float, or a "%.1f" string
\* (kind "str").
EmptyDiff == [kind |-> "empty", v |-> 0]
FloatDiff(d) == [kind |-> "float", v |-> d]

_calculate_time_diff(frontend_error, backend_log) ==
    LET frontend_time == _parse_timestamp(frontend_error.timestamp)
    IN  IF frontend_error.timestamp = NoneTs \/ ~frontend_time.ok THEN EmptyDiff
        ELSE [kind |-> "str", v |-> backend_log.timestamp - frontend_time.t]

\* The values of the backend_timestamp column: '' or datetime.isoformat().
EmptyIso == [kind |-> "empty", v |-> 0]
isoformat(t) == [kind |-> "iso", v |-> t]

\* x or ''
OrEmpty(str) == IF Truthy(str) THEN str ELSE EmptyStr

FrontendColumns(frontend_error) ==
    [frontend_line_number |-> frontend_error.line_number,
     frontend_timestamp |-> IF frontend_error.timestamp = NoneTs
                            THEN [fmt |-> "empty", secs |-> 0]
                            ELSE frontend_error.timestamp,
     frontend_error_type |-> frontend_error.error_type,
     frontend_message |-> Strip(frontend_error.log_segment),
     frontend_request_ids |-> frontend_error.request_ids]

BackendColumns(backend_log) ==
    [backend_timestamp |-> isoformat(backend_log.timestamp),
     backend_message |-> Strip(backend_log.message),
     backend_log_group |-> backend_log.log_group,
     backend_log_stream |-> backend_log.log_stream,
     backend_request_id |-> OrEmpty(backend_log.request_id)]

Merge(f, g) == [k \in (DOMAIN f) \cup (DOMAIN g) |-> IF k \in DOMAIN f THEN f[k] ELSE g[k]]

\* Mutant: the time difference of the match is not copied into the row.
MatchedRow_NoTimeDiff(frontend_error, pair) ==
    Merge(Merge(FrontendColumns(frontend_error), BackendColumns(pair.log)),
          [matched_request_id |-> OrEmpty(pair.info.matched_request_id),
           correlation_method |-> pair.info.method,
           time_diff_seconds |-> EmptyDiff])

\* The row of a pair the matcher returned.
MatchedRow(frontend_error, pair) ==
    Merge(Merge(FrontendColumns(frontend_error), BackendColumns(pair.log)),
          [matched_request_id |-> OrEmpty(pair.info.matched_request_id),
           correlation_method |-> pair.info.method,
           time_diff_seconds |-> IF pair.info.has_time_diff
                                 THEN FloatDiff(pair.info.time_diff_seconds)
                                 ELSE EmptyDiff])

\* The row of a backend log found by _find_time_based_backends.
TimeWindowRow(frontend_error, backend_log) ==
    Merge(Merge(FrontendColumns(frontend_error), BackendColumns(backend_log)),
          [matched_request_id |-> EmptyStr,
           correlation_method |-> "time_window",
           time_diff_seconds |-> _calculate_time_diff(frontend_error, backend_log)])

\* The row of a frontend error with no backend activity.
NoCorrelationRow(frontend_error) ==
    Merge(FrontendColumns(frontend_error),
          [backend_timestamp |-> EmptyIso,
           backend_message |-> <<>>,
           backend_log_group |-> EmptyStr,
           backend_log_stream |-> EmptyStr,
           backend_request_id |-> EmptyStr,
           matched_request_id |-> EmptyStr,
           correlation_method |-> "no_correlation",
           time_diff_seconds |-> EmptyDiff])

\* Mutant: an error without any backend log gets no row.
RowsForError_SkipUncorrelated(frontend_error, logs, max_correlations) ==
    LET correlated_backends == _find_correlated_backends(frontend_error, logs, max_correlations)
        time_based_backends == _find_time_based_backends(frontend_error, logs)
    IN  IF correlated_backends # <<>>
        THEN [i \in 1..Len(correlated_backends) |->
                 MatchedRow(frontend_error, correlated_backends[i])]
        ELSE [i \in 1..Len(time_based_backends) |->
                 TimeWindowRow(frontend_error, time_based_backends[i])]

\* The body of the loop over frontend_errors: the rows of one frontend error.
RowsForError(frontend_error, logs, max_correlations) ==
    LET correlated_backends == _find_correlated_backends(frontend_error, logs, max_correlations)
        time_based_backends == _find_time_based_backends(frontend_error, logs)
    IN  IF correlated_backends # <<>>
        THEN [i \in 1..Len(correlated_backends) |->
                 MatchedRow(frontend_error, correlated_backends[i])]
        ELSE IF time_based_backends # <<>>
        THEN [i \in 1..Len(time_based_backends) |->
                 TimeWindowRow(frontend_error, time_based_backends[i])]
        ELSE <<NoCorrelationRow(frontend_error)>>

RECURSIVE _create_direct_correlation_mappings(_, _, _)
_create_direct_correlation_mappings(errs, logs, max_correlations) ==
    IF errs = <<>> THEN <<>>
    ELSE RowsForError(Head(errs), logs, max_correlations)
         \o _create_direct_correlation_mappings(Tail(errs), logs, max_correlations)

(***************************************************************************)
(* The scanner: LogScanner.  A line is a sequence of tokens; the line's    *)
(* text is their concatenation.  Word tokens are separated by blanks or    *)
(* brackets, so a \b of a pattern falls on a token border.                 *)
(***************************************************************************)
RidA == "abc123xyz"
RidB == "def456uvw"

Stamp1 == "[07-29 18:25:32]"
Stamp2 == "[07-29 18:26:00]"

\* str.lower() of a token.
Lower(token) ==
    CASE token = "[E]" -> "[e]"
      [] token = "[I]" -> "[i]"
      [] token = "Timeout" -> "timeout"
      [] token = "errorCallback" -> "errorcallback"
      [] token = "N" -> "n"
      [] token = "None" -> "none"
      [] token = "requestId=" -> "requestid="
      [] OTHER -> token

LowerAll(s) == [i \in 1..Len(s) |-> Lower(s[i])]

\* The rules of error_patterns that a line over these tokens can match, in the
\* order of the list; a rule matches a line holding one of its tokens
\* (re.IGNORECASE).  The other rules of the list match no such line.
error_patterns ==
    <<[pattern |-> "\\[E\\]", tokens |-> {"[e]"}, error_type |-> "LOG_LEVEL_ERROR"],
      [pattern |-> "\\bError\\b[:\\s]", tokens |-> {"error:"}, error_type |-> "GENERIC_ERROR"],
      [pattern |-> "\\btimeout\\b", tokens |-> {"timeout"}, error_type |-> "TIMEOUT"]>>

\* The rules a caller registers: one for a word no built-in rule matches, one
\* for a word a built-in rule matches.
CustomPatterns ==
    {[pattern |-> "retry", tokens |-> {"retry"}, error_type |-> "CUSTOM_RETRY"],
     [pattern |-> "\\btimeout\\b", tokens |-> {"timeout"}, error_type |-> "CUSTOM_TIMEOUT"]}

\* Mutant: the new rule is put in front of the list.
add_custom_pattern_Prepend(patterns, rule) == <<rule>> \o patterns

\* self.compiled_patterns.append((re.compile(pattern, re.IGNORECASE), error_type))
add_custom_pattern(patterns, rule) == Append(patterns, rule)

\* pattern.search(line)
Search(rule, line) == \E i \in 1..Len(line) : Lower(line[i]) \in rule.tokens

\* The index of the first rule of the list that matches the line, 0 if none.
RECURSIVE FirstMatch(_, _, _)
FirstMatch(patterns, line, k) ==
    IF k > Len(patterns) THEN 0
    ELSE IF Search(patterns[k], line) THEN k
    ELSE FirstMatch(patterns, line, k + 1)

\* re.search on the lower-cased line, for the exclude_patterns a line over
\* these tokens can match: 'errorcallback' and 'error.*:.*true'.

MatchesErrorColonTrue(low) ==
    \E i, j, k \in 1..Len(low) :
        /\ low[i] \in {"error:", "errorcallback"}
        /\ low[j] \in {"error:", Stamp1, Stamp2}
        /\ i < j \/ (i = j /\ low[i] = "error:")
        /\ j < k
        /\ low[k] = "true"

_should_exclude_line(line) ==
    LET line_lower == LowerAll(line)
    IN  \/ \E i \in 1..Len(line) : line[i] \in {"[I]", "[INFO]", "[D]", "[DEBUG]", "[TRACE]"}
        \/ MatchesErrorColonTrue(line_lower)
        \/ \E i \in 1..Len(line_lower) : line_lower[i] = "errorcallback"

\* re.sub of the bracketed timestamps, then of the whole numbers.
RECURSIVE RemoveTimestamps(_)
RemoveTimestamps(s) ==
    IF s = <<>> THEN <<>>
    ELSE IF Head(s) \in {Stamp1, Stamp2} THEN RemoveTimestamps(Tail(s))
    ELSE <<Head(s)>> \o RemoveTimestamps(Tail(s))

ReplaceNumbers(s) == [i \in 1..Len(s) |-> IF s[i] \in {"30", "35"} THEN "N" ELSE s[i]]

\* f"{error.error_type}:{normalized_message.lower()}"
_create_error_signature(error) ==
    <<error.error_type, ":">>
        \o LowerAll(NormalizeWhitespace(ReplaceNumbers(RemoveTimestamps(Strip(error.log_segment)))))

\* lines[a:b] of Python, for 0 <= a and b <= len(lines).
Slice(s, a, b) == IF a < b THEN SubSeq(s, a + 1, b) ELSE <<>>

Max(a, b) == IF a > b THEN a ELSE b
Min(a, b) == IF a < b THEN a ELSE b

\* The keys request_id_pattern accepts, each with the separator after it
\* ([:=\s]+), lower-cased (re.IGNORECASE).

\* What ([a-zA-Z0-9\-_]+) takes from the start of a token: nothing of a token
\* that starts with a bracket or is blank, the characters before the colon or
\* the equals sign of a token that has one, else the whole token.
Capture(token) ==
    CASE token \in {Stamp1, Stamp2, "[E]", "[I]", Space} -> EmptyStr
      [] token = "error:" -> "error"
      [] token = "request_id:" -> "request_id"
      [] token = "req_id=" -> "req_id"
      [] token = "requestId=" -> "requestId"
      [] OTHER -> token

\* The index of the first token after position i that is not a blank.
RECURSIVE SkipBlanks(_, _)
SkipBlanks(line, i) ==
    IF i <= Len(line) /\ line[i] = Space THEN SkipBlanks(line, i + 1) ELSE i

\* request_id_pattern.findall(line), from token i on.
RECURSIVE FindAll(_, _)
FindAll(line, i) ==
    IF i > Len(line) THEN <<>>
    ELSE IF Lower(line[i]) \in {"request_id:", "req_id=", "requestid="}
    THEN LET j == SkipBlanks(line, i + 1)
         IN  IF j <= Len(line) /\ Capture(line[j]) # EmptyStr
             THEN <<Capture(line[j])>> \o FindAll(line, j + 1)
             ELSE FindAll(line, i + 1)
    ELSE FindAll(line, i + 1)

invalid_values == {"null", "none", "undefined", "nil", "empty"}

\* Mutant: an id of five characters is long enough.
_is_valid_request_id_Min5(request_id) ==
    /\ request_id # EmptyStr
    /\ Lower(request_id) \notin invalid_values
    /\ ~(Len(request_id) < 5)

\* LogScanner._is_valid_request_id
_is_valid_request_id(request_id) ==
    /\ request_id # EmptyStr
    /\ Lower(request_id) \notin invalid_values
    /\ ~(Len(request_id) < 6)

\* Mutant: an id is appended every time it is found.
RECURSIVE AppendValid_NoSeen(_, _)
AppendValid_NoSeen(request_ids, matches) ==
    IF matches = <<>> THEN request_ids
    ELSE LET request_id == Head(matches)
         IN  IF request_id # EmptyStr /\ _is_valid_request_id(request_id)
             THEN AppendValid_NoSeen(Append(request_ids, request_id), Tail(matches))
             ELSE AppendValid_NoSeen(request_ids, Tail(matches))

\* The valid, not yet seen ids among the matches, appended to request_ids.
RECURSIVE AppendValid(_, _)
AppendValid(request_ids, matches) ==
    IF matches = <<>> THEN request_ids
    ELSE LET request_id == Head(matches)
         IN  IF /\ request_id # EmptyStr
                /\ _is_valid_request_id(request_id)
                /\ request_id \notin Range(request_ids)
             THEN AppendValid(Append(request_ids, request_id), Tail(matches))
             ELSE AppendValid(request_ids, Tail(matches))

\* The loop of _extract_all_request_ids over the lines from index k on.
RECURSIVE ExtractFrom(_, _, _)
ExtractFrom(request_ids, context, k) ==
    IF k > Len(context) THEN request_ids
    ELSE ExtractFrom(AppendValid(request_ids, FindAll(context[k], 1)), context, k + 1)

_extract_all_request_ids(context) == ExtractFrom(<<>>, context, 1)

_extract_request_id(context) ==
    LET request_ids == _extract_all_request_ids(context)
    IN  IF request_ids # <<>> THEN request_ids[1] ELSE NoneStr

\* The string the pattern \[(\d{2}-\d{2} \d{2}:\d{2}:\d{2})\] takes from a
\* bracketed timestamp: "07-29 18:25:32", "07-29 18:26:00".
StampString(token) ==
    [fmt |-> "%m-%d %H:%M:%S", secs |-> IF token = Stamp1 THEN 0 ELSE 28]

\* The first timestamp of the first line of the context that has one.
RECURSIVE _extract_timestamp(_)
_extract_timestamp(context) ==
    IF context = <<>> THEN NoneTs
    ELSE LET line == Head(context)
             stamps == {i \in 1..Len(line) : line[i] \in {Stamp1, Stamp2}}
         IN  IF stamps # {}
             THEN StampString(line[CHOOSE i \in stamps : \A j \in stamps : i <= j])
             ELSE _extract_timestamp(Tail(context))

_extract_error_details(all_lines, n, error_line, error_type, context_lines) ==
    LET context_lines_for_request_id ==
            Slice(all_lines, Max(0, n - context_lines),
                  Min(Len(all_lines), n + context_lines + 1))
    IN  [timestamp |-> _extract_timestamp(
                           Slice(all_lines, Max(0, n - 2), Min(Len(all_lines), n + 2))),
         request_id |-> _extract_request_id(context_lines_for_request_id),
         request_ids |-> _extract_all_request_ids(context_lines_for_request_id),
         error_type |-> error_type,
         log_segment |-> error_line,
         line_number |-> n + 1]

\* Mutant: every detected line is appended, seen or not.
scan_line_NoDedup(patterns, all_lines, context_lines, errs, seen, n, line) ==
    LET k == FirstMatch(patterns, line, 1)
        error == _extract_error_details(all_lines, n, line, patterns[k].error_type, context_lines)
        error_signature == _create_error_signature(error)
    IN  IF _should_exclude_line(line) \/ k = 0
        THEN [errors |-> errs, seen_errors |-> seen]
        ELSE [errors |-> Append(errs, error), seen_errors |-> seen \cup {error_signature}]

\* Mutant: the exclusion check is skipped.
scan_line_NoExclusion(patterns, all_lines, context_lines, errs, seen, n, line) ==
    LET k == FirstMatch(patterns, line, 1)
        error == _extract_error_details(all_lines, n, line, patterns[k].error_type, context_lines)
        error_signature == _create_error_signature(error)
    IN  IF k = 0
        THEN [errors |-> errs, seen_errors |-> seen]
        ELSE IF error_signature \notin seen
        THEN [errors |-> Append(errs, error), seen_errors |-> seen \cup {error_signature}]
        ELSE [errors |-> errs, seen_errors |-> seen]

\* Mutant: a new record is put at the head of the list.
scan_line_Prepend(patterns, all_lines, context_lines, errs, seen, n, line) ==
    LET k == FirstMatch(patterns, line, 1)
        error == _extract_error_details(all_lines, n, line, patterns[k].error_type, context_lines)
        error_signature == _create_error_signature(error)
    IN  IF _should_exclude_line(line) \/ k = 0
        THEN [errors |-> errs, seen_errors |-> seen]
        ELSE IF error_signature \notin seen
        THEN [errors |-> <<error>> \o errs, seen_errors |-> seen \cup {error_signature}]
        ELSE [errors |-> errs, seen_errors |-> seen]

\* The body of the loop of scan_for_errors for the line of index n: the new
\* values of errors and seen_errors.
scan_line(patterns, all_lines, context_lines, errs, seen, n, line) ==
    LET k == FirstMatch(patterns, line, 1)
        error == _extract_error_details(all_lines, n, line, patterns[k].error_type, context_lines)
        error_signature == _create_error_signature(error)
    IN  IF _should_exclude_line(line) \/ k = 0
        THEN [errors |-> errs, seen_errors |-> seen]
        ELSE IF error_signature \notin seen
        THEN [errors |-> Append(errs, error), seen_errors |-> seen \cup {error_signature}]
        ELSE [errors |-> errs, seen_errors |-> seen]

\* The lines a log is made of.
LogLines ==
    {<<Stamp1, Space, "[E]", Space, "timeout", Space, "30">>,
     <<Stamp2, Space, "[E]", Space, Space, "timeout", Space, "35">>,
     <<"Timeout", Space, "30">>,
     <<"[I]", Space, "timeout">>,
     <<"[E]", Space, "errorCallback">>,
     <<"error:", Space, "true">>,
     <<"error:", Space, "timeout">>,
     <<"retry">>,
     <<>>}

\* The lines of a log that carries request ids: a line with an invalid and a
\* valid id; an error line with a too short id, an id of six characters and the
\* valid id again; two error lines without ids.
RequestIdLines ==
    {<<"req_id=", "None", Space, "request_id:", Space, RidA>>,
     <<"[E]", Space, "timeout", Space, "requestId=", "abc12", Space,
       "request_id:", Space, "abc123", Space, "request_id:", Space, RidA>>,
     <<"Timeout", Space, "30">>,
     <<Stamp1, Space, "[E]", Space, "timeout", Space, "30">>}

\* scan_for_errors(log_content): request_id_context_lines = 5.
DefaultContextLines == 5

LookupIdle ==
    /\ logs_client = "client"
    /\ log_group = "/aws/lambda/api"
    /\ time_window_minutes = DEFAULT_TIME_WINDOW_MINUTES
    /\ error_index = 0
    /\ lookup_logs = <<>>
    /\ searches = <<>>
    /\ lookup_status = "idle"

CorrIdle ==
    /\ frontend_errors = <<>>
    /\ backend_logs = <<>>
    /\ max_correlations_per_error = 3
    /\ correlations = <<>>
    /\ global_deduplication = TRUE
    /\ pc = "idle"

\* retries=None
NoneInt == -1

\* Config.WEBHOOK_RETRIES
WEBHOOK_RETRIES == 3

\* No search at work.
PollIdle ==
    /\ query = [request_id |-> NoneStr, start_time |-> 0, end_time |-> 0]
    /\ elapsed_time = 0
    /\ polls = 0
    /\ query_status = NoneStr
    /\ poll_pc = "idle"
    /\ poll_result = <<>>

\* No sender at work.
SendIdle ==
    /\ retries_arg = NoneInt
    /\ retries = WEBHOOK_RETRIES
    /\ is_lark_webhook = FALSE
    /\ attempt = 0
    /\ responses = <<>>
    /\ send_pc = "idle"
    /\ send_result = NoneStr

\* The API server after start-up: no job, no task, nothing sent.
JobsIdle ==
    /\ analysis_jobs = <<>>
    /\ background_tasks = <<>>
    /\ notifications = <<>>
    /\ utcnow = 0

\* The calls of scan_for_errors made on one LogScanner, by threads that may
\* run together.
Calls == 1..MaxCalls

CallsIdle ==
    calls = [c \in Calls |->
                [lines |-> <<>>, request_id_context_lines |-> DefaultContextLines,
                 line_num |-> 0, errors |-> <<>>, seen_errors |-> {}, pc |-> "idle"]]

InitScan ==
    /\ compiled_patterns = error_patterns
    /\ CallsIdle
    /\ \/ /\ lines \in {t \in SeqsUpTo(LogLines, MaxLines) : Len(t) >= 1}
          /\ request_id_context_lines = DefaultContextLines
       \/ /\ lines \in {t \in SeqsUpTo(RequestIdLines, MaxLines) : Len(t) >= 1}
          /\ request_id_context_lines \in {-1, 0, 1}
    /\ line_num = 0
    /\ errors = <<>>
    /\ seen_errors = {}
    /\ scan_pc = "loop"
    /\ CorrIdle
    /\ LookupIdle
    /\ JobsIdle
    /\ PollIdle
    /\ SendIdle

\* One iteration of "for line_num, line in enumerate(lines)".
ScanLine ==
    /\ scan_pc = "loop"
    /\ line_num < Len(lines)
    /\ LET r == scan_line(compiled_patterns, lines, request_id_context_lines,
                          errors, seen_errors, line_num, lines[line_num + 1])
       IN  /\ errors' = r.errors
           /\ seen_errors' = r.seen_errors
    /\ line_num' = line_num + 1
    /\ UNCHANGED <<compiled_patterns, lines, scan_pc, request_id_context_lines, calls>>
    /\ UNCHANGED corr_vars
    /\ UNCHANGED lookup_vars
    /\ UNCHANGED job_vars
    /\ UNCHANGED send_vars
    /\ UNCHANGED poll_vars

\* "return errors"
ScanReturn ==
    /\ scan_pc = "loop"
    /\ line_num = Len(lines)
    /\ scan_pc' = "done"
    /\ UNCHANGED <<compiled_patterns, lines, line_num, errors, seen_errors,
                   request_id_context_lines, calls>>
    /\ UNCHANGED corr_vars
    /\ UNCHANGED lookup_vars
    /\ UNCHANGED job_vars
    /\ UNCHANGED send_vars
    /\ UNCHANGED poll_vars

\* add_custom_pattern(pattern, error_type), called before the lines are scanned.
AddCustomPattern ==
    /\ scan_pc = "loop"
    /\ line_num = 0
    /\ Len(compiled_patterns) < Len(error_patterns) + MaxCustom
    /\ \E rule \in CustomPatterns :
           compiled_patterns' = add_custom_pattern(compiled_patterns, rule)
    /\ UNCHANGED <<lines, line_num, errors, seen_errors, scan_pc, request_id_context_lines,
                   calls>>
    /\ UNCHANGED corr_vars
    /\ UNCHANGED lookup_vars
    /\ UNCHANGED job_vars
    /\ UNCHANGED send_vars
    /\ UNCHANGED poll_vars

NextScan == AddCustomPattern \/ ScanLine \/ ScanReturn

SpecScan == InitScan /\ [][NextScan]_vars

(***************************************************************************)
(* Inputs of the correlation: LogError and BackendLogEntry values.         *)
(***************************************************************************)
\* Raw timestamp strings: "2024-07-30T10:00:00Z" parses, "...+00:00" does not.
ParseableTs == [fmt |-> "%Y-%m-%dT%H:%M:%SZ", secs |-> 0]
UnparseableTs == [fmt |-> "%Y-%m-%dT%H:%M:%S%z", secs |-> 0]

\* (request_ids, request_id): none; two ids as the scanner fills them; only the
\* backward-compatible request_id field.
IdFields ==
    {[request_ids |-> <<>>, request_id |-> NoneStr],
     [request_ids |-> <<RidB, RidA>>, request_id |-> RidB],
     [request_ids |-> <<>>, request_id |-> RidA]}

LogErrorOf(ts, ids) ==
    [timestamp |-> ts, request_id |-> ids.request_id, request_ids |-> ids.request_ids,
     error_type |-> "LOG_LEVEL_ERROR", log_segment |-> <<"[E]", Space, "timeout", Space>>,
     line_number |-> 0]

TableErrors ==
    {LogErrorOf(ts, ids) : ts \in {NoneTs, ParseableTs},
                           ids \in {i \in IdFields : i.request_id # RidA}}

\* Backend instants relative to the frontend instant 0: 4 minutes later on the
\* frontend's own clock; 4 minutes after the UTC-corrected instant; the last
\* second of the window after the corrected instant; the first one outside.
BackendTimes ==
    {240,
     UTC_OFFSET_HOURS * 3600 + 240,
     UTC_OFFSET_HOURS * 3600 + time_window_seconds,
     UTC_OFFSET_HOURS * 3600 + time_window_seconds + 1}

MsgError == <<"ERROR", Space, "pool">>
MsgInfo == <<"info", Space, Space, "retry", Space>>

BackendLogEntryOf(t, m, rid) ==
    [timestamp |-> t, message |-> m, request_id |-> rid,
     log_group |-> "/aws/lambda/api", log_stream |-> "stream1"]

MatcherEntries ==
    {BackendLogEntryOf(t, m, rid) : t \in BackendTimes, m \in {MsgError, MsgInfo},
                                    rid \in {NoneStr, RidA}}

TableEntries ==
    {BackendLogEntryOf(t, m, rid) : t \in {240, UTC_OFFSET_HOURS * 3600 + 240},
                                    m \in {MsgError, <<"ERROR", Space, Space, "pool">>},
                                    rid \in {NoneStr, RidA}}

\* find_correlating_logs returns a pool with no two entries of the same
\* (timestamp, message).
UniqueLogs(logs) ==
    \A i, j \in 1..Len(logs) :
        (logs[i].timestamp = logs[j].timestamp /\ logs[i].message = logs[j].message) => i = j

Pools(entries) == {logs \in SeqsUpTo(entries, MaxPool) : UniqueLogs(logs)}

\* The scanner numbers its records by line: here the i-th record is on line i.
Numbered(errs) == [i \in 1..Len(errs) |-> [errs[i] EXCEPT !.line_number = i]]

ScanIdle ==
    /\ compiled_patterns = error_patterns
    /\ lines = <<>>
    /\ line_num = 0
    /\ errors = <<>>
    /\ seen_errors = {}
    /\ scan_pc = "idle"
    /\ request_id_context_lines = DefaultContextLines
    /\ CallsIdle

InitMatcher ==
    /\ frontend_errors \in
           {Numbered(<<LogErrorOf(ts, ids)>>) :
                ts \in {NoneTs, UnparseableTs, ParseableTs}, ids \in IdFields}
    /\ backend_logs \in Pools(MatcherEntries)

InitTable ==
    /\ frontend_errors \in {Numbered(errs) : errs \in SeqsUpTo(TableErrors, MaxErrors)}
    /\ backend_logs \in Pools(TableEntries)

Init ==
    /\ InitMatcher \/ InitTable
    /\ max_correlations_per_error \in 1..MaxN
    /\ correlations = <<>>
    /\ global_deduplication = TRUE
    /\ pc = "start"
    /\ ScanIdle
    /\ LookupIdle
    /\ JobsIdle
    /\ PollIdle
    /\ SendIdle

\* Mutant: the builder sorts the pool it was given, in place, newest first.
CreateCorrelationMappings_SortsPool ==
    /\ pc = "start"
    /\ correlations' = _create_direct_correlation_mappings(
                           frontend_errors, backend_logs, max_correlations_per_error)
    /\ backend_logs' = [i \in 1..Len(backend_logs) |-> backend_logs[Len(backend_logs) + 1 - i]]
    /\ pc' = "mappings"
    /\ UNCHANGED <<frontend_errors, max_correlations_per_error, global_deduplication>>
    /\ UNCHANGED scan_vars
    /\ UNCHANGED lookup_vars
    /\ UNCHANGED job_vars
    /\ UNCHANGED send_vars
    /\ UNCHANGED poll_vars

\* analyze_report, step 5: the table of the report.
CreateCorrelationMappings ==
    /\ pc = "start"
    /\ correlations' = _create_direct_correlation_mappings(
                           frontend_errors, backend_logs, max_correlations_per_error)
    /\ pc' = "mappings"
    /\ UNCHANGED <<frontend_errors, backend_logs, max_correlations_per_error,
                   global_deduplication>>
    /\ UNCHANGED scan_vars
    /\ UNCHANGED lookup_vars
    /\ UNCHANGED job_vars
    /\ UNCHANGED send_vars
    /\ UNCHANGED poll_vars

\* export_correlations_to_csv: the rows of the CSV file.
ExportCorrelationsToCsv ==
    /\ pc = "start"
    /\ \E g \in BOOLEAN : global_deduplication' = g
    /\ correlations' = _create_direct_correlation_mappings(frontend_errors, backend_logs, 3)
    /\ pc' = "export"
    /\ UNCHANGED <<frontend_errors, backend_logs, max_correlations_per_error>>
    /\ UNCHANGED scan_vars
    /\ UNCHANGED lookup_vars
    /\ UNCHANGED job_vars
    /\ UNCHANGED send_vars
    /\ UNCHANGED poll_vars

\* _create_direct_correlation_mappings called once more with the lists and the
\* limit of the first call.
CreateCorrelationMappingsAgain ==
    /\ pc = "mappings"
    /\ correlations' = _create_direct_correlation_mappings(
                           frontend_errors, backend_logs, max_correlations_per_error)
    /\ pc' = "again"
    /\ UNCHANGED <<frontend_errors, backend_logs, max_correlations_per_error,
                   global_deduplication>>
    /\ UNCHANGED scan_vars
    /\ UNCHANGED lookup_vars
    /\ UNCHANGED job_vars
    /\ UNCHANGED send_vars
    /\ UNCHANGED poll_vars

Next == CreateCorrelationMappings \/ ExportCorrelationsToCsv \/ CreateCorrelationMappingsAgain

Spec == Init /\ [][Next]_vars

(***************************************************************************)
(* The backend lookup: CloudWatchFinder.find_correlating_logs, called by   *)
(* step 4 of BugAnalyzer.analyze_report.  The log group is a list of       *)
(* events; a search is started with CloudWatch Insights and ends with one  *)
(* of the outcomes of _search_by_request_id_insights.                      *)
(***************************************************************************)
\* CloudWatchFinder._is_valid_request_id_for_search
_is_valid_request_id_for_search(request_id) ==
    /\ request_id # EmptyStr
    /\ Lower(request_id) \notin {"null", "none", "undefined", "nil", "empty"}
    /\ ~(Len(request_id) < 6)

\* CloudWatchFinder._is_valid_request_id_for_extraction
_is_valid_request_id_for_extraction(request_id) ==
    /\ request_id # EmptyStr
    /\ Lower(request_id) \notin {"null", "none", "undefined", "nil", "empty"}
    /\ ~(Len(request_id) < 6)

\* request_id_pattern.search(message), then the validity check.
_extract_request_id_from_message(message) ==
    LET matches == FindAll(message, 1)
    IN  IF matches # <<>> /\ _is_valid_request_id_for_extraction(matches[1])
        THEN matches[1]
        ELSE NoneStr

\* The events of the log group, newest first (sort @timestamp desc): on the
\* border of the 120-minute window of the frontend instant 0, on the border of
\* the 4-minute window of the instant one minute later, on the border of the
\* 4-minute window of the instant 0, and before any window.
LogEvents ==
    <<[timestamp |-> UTC_OFFSET_HOURS * 3600 + time_window_seconds,
       message |-> <<"ERROR", Space, "request_id:", Space, RidA>>, log_stream |-> "stream1"],
      [timestamp |-> UTC_OFFSET_HOURS * 3600 + 300,
       message |-> <<"ERROR", Space, "request_id:", Space, RidA>>, log_stream |-> "stream2"],
      [timestamp |-> UTC_OFFSET_HOURS * 3600 + 240,
       message |-> <<"ERROR", Space, "request_id:", Space, RidB, Space, "caused", Space, RidA>>,
       log_stream |-> "stream2"],
      [timestamp |-> 240,
       message |-> <<"ERROR", Space, "request_id:", Space, RidA>>, log_stream |-> "stream1"]>>

\* The results of the query "filter @message like /request_id/" between
\* startTime and endTime.
RECURSIVE QueryResults(_, _, _, _)
QueryResults(events, request_id, start_time, end_time) ==
    IF events = <<>> THEN <<>>
    ELSE LET rest == QueryResults(Tail(events), request_id, start_time, end_time)
         IN  IF /\ request_id \in Range(Head(events).message)
                /\ start_time <= Head(events).timestamp
                /\ Head(events).timestamp <= end_time
             THEN <<Head(events)>> \o rest
             ELSE rest

_parse_insights_results(results, group) ==
    [i \in 1..Len(results) |->
        [timestamp |-> results[i].timestamp,
         message |-> results[i].message,
         request_id |-> _extract_request_id_from_message(results[i].message),
         log_group |-> group,
         log_stream |-> results[i].log_stream]]

\* Mutant: the results are read whatever the status of the query.
_search_by_request_id_insights_AnyStatus(outcome, group, request_id, start_time, end_time) ==
    _parse_insights_results(QueryResults(LogEvents, request_id, start_time, end_time), group)

\* CloudWatchFinder._search_by_request_id_insights, for the outcome of the query.
_search_by_request_id_insights(outcome, group, request_id, start_time, end_time) ==
    IF outcome = "Complete"
    THEN _parse_insights_results(QueryResults(LogEvents, request_id, start_time, end_time), group)
    ELSE <<>>

\* The entries of a list whose key is not the key of an earlier entry.
RECURSIVE RemoveDuplicates(_, _, _)
RemoveDuplicates(logs, seen, WithStream) ==
    IF logs = <<>> THEN <<>>
    ELSE LET log == Head(logs)
             key == <<log.timestamp, log.message, IF WithStream THEN log.log_stream ELSE EmptyStr>>
         IN  IF key \in seen THEN RemoveDuplicates(Tail(logs), seen, WithStream)
             ELSE <<log>> \o RemoveDuplicates(Tail(logs), seen \cup {key}, WithStream)

\* timestamp.replace(tzinfo=timezone(timedelta(hours=-4))).astimezone(timezone.utc)
utc_timestamp(timestamp) == timestamp + EDT_OFFSET_HOURS * 3600

\* error.request_ids if error.request_ids else ([error.request_id] if error.request_id else [])
request_ids_to_search(error) ==
    IF error.request_ids # <<>> THEN error.request_ids
    ELSE IF Truthy(error.request_id) THEN <<error.request_id>>
    ELSE <<>>

\* Mutant: every request id is searched for, valid or not.
RECURSIVE SearchAll_NoValidation(_, _, _, _, _, _)
SearchAll_NoValidation(error, group, ids, outcomes, start_time, end_time) ==
    IF ids = <<>> THEN [logs |-> <<>>, searches |-> <<>>]
    ELSE LET rest == SearchAll_NoValidation(error, group, Tail(ids), Tail(outcomes), start_time, end_time)
             request_id == Head(ids)
         IN  [logs |-> _search_by_request_id_insights(
                           Head(outcomes), group, request_id, start_time, end_time) \o rest.logs,
              searches |-> <<[line_number |-> error.line_number, request_id |-> request_id,
                              start_time |-> start_time, end_time |-> end_time,
                              outcome |-> Head(outcomes)]>> \o rest.searches]

\* The loop of _find_logs_for_error over request_ids_to_search: the entries
\* found and the searches started, outcomes[i] being how a search for the
\* i-th id ends.
RECURSIVE SearchAll(_, _, _, _, _, _)
SearchAll(error, group, ids, outcomes, start_time, end_time) ==
    IF ids = <<>> THEN [logs |-> <<>>, searches |-> <<>>]
    ELSE LET rest == SearchAll(error, group, Tail(ids), Tail(outcomes), start_time, end_time)
             request_id == Head(ids)
         IN  IF Truthy(request_id) /\ _is_valid_request_id_for_search(request_id)
             THEN [logs |-> _search_by_request_id_insights(
                                Head(outcomes), group, request_id, start_time, end_time)
                            \o rest.logs,
                   searches |-> <<[line_number |-> error.line_number, request_id |-> request_id,
                                   start_time |-> start_time, end_time |-> end_time,
                                   outcome |-> Head(outcomes)]>> \o rest.searches]
             ELSE rest

\* CloudWatchFinder._find_logs_for_error
_find_logs_for_error(error, group, window_minutes, outcomes) ==
    LET timestamp == _parse_timestamp(error.timestamp)
    IN  IF ~timestamp.ok THEN [logs |-> <<>>, searches |-> <<>>]
        ELSE LET start_time == utc_timestamp(timestamp.t) - window_minutes * 60
                 end_time == utc_timestamp(timestamp.t) + window_minutes * 60
                 found == SearchAll(error, group, request_ids_to_search(error), outcomes,
                                    start_time, end_time)
             IN  [logs |-> RemoveDuplicates(found.logs, {}, TRUE), searches |-> found.searches]

\* The frontend errors looked up: records as the scanner fills them (no id, one
\* id, two ids, no timestamp), a record with the request_id field only and a
\* record with an id too short to be valid.
LookupErrors ==
    {LogErrorOf(ParseableTs, [request_ids |-> <<>>, request_id |-> NoneStr]),
     LogErrorOf(ParseableTs, [request_ids |-> <<RidA>>, request_id |-> RidA]),
     LogErrorOf(ParseableTs, [request_ids |-> <<RidB, RidA>>, request_id |-> RidB]),
     LogErrorOf(ParseableTs, [request_ids |-> <<"abc12">>, request_id |-> NoneStr]),
     LogErrorOf([fmt |-> "%Y-%m-%d %H:%M:%S", secs |-> 60], [request_ids |-> <<>>, request_id |-> RidA]),
     LogErrorOf(NoneTs, [request_ids |-> <<RidA>>, request_id |-> RidA])}

\* analyze_report at step 4, with frontend errors to look up.
InitLookup ==
    /\ frontend_errors \in {Numbered(errs) : errs \in SeqsUpTo(LookupErrors, MaxErrors) \ {<<>>}}
    /\ backend_logs = <<>>
    /\ max_correlations_per_error = DEFAULT_MAX_CORRELATIONS
    /\ correlations = <<>>
    /\ global_deduplication = TRUE
    /\ pc = "lookup"
    /\ logs_client \in {"client", NoneStr}
    /\ log_group \in {"/aws/lambda/api", NoneStr}
    /\ time_window_minutes \in {0, 4, DEFAULT_TIME_WINDOW_MINUTES}
    /\ error_index = 0
    /\ lookup_logs = <<>>
    /\ searches = <<>>
    /\ lookup_status = "running"
    /\ ScanIdle
    /\ JobsIdle
    /\ PollIdle
    /\ SendIdle

\* find_correlating_logs without a client or without a log group: returns [].
FindCorrelatingLogsSkipped ==
    /\ pc = "lookup"
    /\ logs_client = NoneStr \/ log_group = NoneStr
    /\ backend_logs' = <<>>
    /\ lookup_status' = "skipped"
    /\ pc' = "start"
    /\ UNCHANGED <<frontend_errors, max_correlations_per_error, correlations,
                   global_deduplication>>
    /\ UNCHANGED <<logs_client, log_group, time_window_minutes, error_index, lookup_logs,
                   searches>>
    /\ UNCHANGED scan_vars
    /\ UNCHANGED job_vars
    /\ UNCHANGED send_vars
    /\ UNCHANGED poll_vars

\* One iteration of "for error in frontend_errors": _find_logs_for_error.
FindLogsForError ==
    /\ pc = "lookup"
    /\ logs_client # NoneStr /\ log_group # NoneStr
    /\ error_index < Len(frontend_errors)
    /\ LET error == frontend_errors[error_index + 1]
       IN  \E outcomes \in [1..Len(request_ids_to_search(error)) ->
                               {"Complete", "Failed", "TimedOut", "ClientError"}] :
               LET r == _find_logs_for_error(error, log_group, time_window_minutes, outcomes)
               IN  /\ lookup_logs' = lookup_logs \o r.logs
                   /\ searches' = searches \o r.searches
    /\ error_index' = error_index + 1
    /\ UNCHANGED corr_vars
    /\ UNCHANGED job_vars
    /\ UNCHANGED send_vars
    /\ UNCHANGED poll_vars
    /\ UNCHANGED <<logs_client, log_group, time_window_minutes, lookup_status>>
    /\ UNCHANGED scan_vars
    /\ UNCHANGED job_vars
    /\ UNCHANGED send_vars
    /\ UNCHANGED poll_vars

\* The end of find_correlating_logs: the entries found, without duplicates.
FindCorrelatingLogsReturn ==
    /\ pc = "lookup"
    /\ logs_client # NoneStr /\ log_group # NoneStr
    /\ error_index = Len(frontend_errors)
    /\ backend_logs' = RemoveDuplicates(lookup_logs, {}, FALSE)
    /\ lookup_status' = "returned"
    /\ pc' = "start"
    /\ UNCHANGED <<frontend_errors, max_correlations_per_error, correlations,
                   global_deduplication>>
    /\ UNCHANGED <<logs_client, log_group, time_window_minutes, error_index, lookup_logs,
                   searches>>
    /\ UNCHANGED scan_vars
    /\ UNCHANGED job_vars
    /\ UNCHANGED send_vars
    /\ UNCHANGED poll_vars

\* find_correlating_logs raises: "except Exception" of step 4 sets backend_logs = [].
FindCorrelatingLogsRaises ==
    /\ pc = "lookup"
    /\ logs_client # NoneStr /\ log_group # NoneStr
    /\ backend_logs' = <<>>
    /\ lookup_status' = "raised"
    /\ pc' = "start"
    /\ UNCHANGED <<frontend_errors, max_correlations_per_error, correlations,
                   global_deduplication>>
    /\ UNCHANGED <<logs_client, log_group, time_window_minutes, error_index, lookup_logs,
                   searches>>
    /\ UNCHANGED scan_vars
    /\ UNCHANGED job_vars
    /\ UNCHANGED send_vars
    /\ UNCHANGED poll_vars

NextLookup ==
    \/ FindCorrelatingLogsSkipped
    \/ FindLogsForError
    \/ FindCorrelatingLogsReturn
    \/ FindCorrelatingLogsRaises
    \/ CreateCorrelationMappings

SpecLookup == InitLookup /\ [][NextLookup]_vars

(***************************************************************************)
(* Several calls of scan_for_errors on one LogScanner.  lines, errors and  *)
(* seen_errors are locals of a call; the calls share compiled_patterns,    *)
(* which no call writes.  A step is one iteration of the loop of one call. *)
(***************************************************************************)
\* A log text whose second line is an error line with request ids.
TextShort ==
    <<<<"req_id=", "None", Space, "request_id:", Space, RidA>>,
      <<"[E]", Space, "timeout", Space, "requestId=", "abc12", Space,
        "request_id:", Space, "abc123", Space, "request_id:", Space, RidA>>>>

\* A log text that starts with that error line and repeats it as its third line.
TextRepeating ==
    <<<<"[E]", Space, "timeout", Space, "requestId=", "abc12", Space,
        "request_id:", Space, "abc123", Space, "request_id:", Space, RidA>>,
      <<Stamp1, Space, "[E]", Space, "timeout", Space, "30">>,
      <<"[E]", Space, "timeout", Space, "requestId=", "abc12", Space,
        "request_id:", Space, "abc123", Space, "request_id:", Space, RidA>>>>

\* The arguments of the calls: (log_content, request_id_context_lines).
ScanArguments ==
    {[log_content |-> TextShort, request_id_context_lines |-> 1],
     [log_content |-> TextRepeating, request_id_context_lines |-> 1],
     [log_content |-> TextRepeating, request_id_context_lines |-> 0]}

\* Mutant: the signatures seen are kept on the instance, for all its calls.
SeenErrors_OfInstance(cs, c) == UNION {cs[d].seen_errors : d \in DOMAIN cs}

\* seen_errors of a call: the set its own iterations filled.
SeenErrors(cs, c) == cs[c].seen_errors

InitScans ==
    /\ CorrIdle
    /\ LookupIdle
    /\ ScanIdle
    /\ JobsIdle
    /\ PollIdle
    /\ SendIdle

\* scan_for_errors(log_content, request_id_context_lines=...) is entered.
ScanCall(c) ==
    /\ calls[c].pc = "idle"
    /\ \E args \in ScanArguments :
           calls' = [calls EXCEPT ![c] =
                        [lines |-> args.log_content,
                         request_id_context_lines |-> args.request_id_context_lines,
                         line_num |-> 0, errors |-> <<>>, seen_errors |-> {}, pc |-> "loop"]]
    /\ UNCHANGED <<compiled_patterns, lines, line_num, errors, seen_errors, scan_pc,
                   request_id_context_lines>>
    /\ UNCHANGED corr_vars
    /\ UNCHANGED lookup_vars
    /\ UNCHANGED job_vars
    /\ UNCHANGED send_vars
    /\ UNCHANGED poll_vars

\* One iteration of the loop of a call.
ScanCallLine(c) ==
    /\ calls[c].pc = "loop"
    /\ calls[c].line_num < Len(calls[c].lines)
    /\ \E r \in {scan_line(compiled_patterns, calls[c].lines,
                            calls[c].request_id_context_lines, calls[c].errors,
                            SeenErrors(calls, c), calls[c].line_num,
                            calls[c].lines[calls[c].line_num + 1])} :
           calls' = [calls EXCEPT ![c].errors = r.errors,
                                  ![c].seen_errors = r.seen_errors,
                                  ![c].line_num = calls[c].line_num + 1]
    /\ UNCHANGED <<compiled_patterns, lines, line_num, errors, seen_errors, scan_pc,
                   request_id_context_lines>>
    /\ UNCHANGED corr_vars
    /\ UNCHANGED lookup_vars
    /\ UNCHANGED job_vars
    /\ UNCHANGED send_vars
    /\ UNCHANGED poll_vars

\* "return errors" of a call.
ScanCallReturn(c) ==
    /\ calls[c].pc = "loop"
    /\ calls[c].line_num = Len(calls[c].lines)
    /\ calls' = [calls EXCEPT ![c].pc = "done"]
    /\ UNCHANGED <<compiled_patterns, lines, line_num, errors, seen_errors, scan_pc,
                   request_id_context_lines>>
    /\ UNCHANGED corr_vars
    /\ UNCHANGED lookup_vars
    /\ UNCHANGED job_vars
    /\ UNCHANGED send_vars
    /\ UNCHANGED poll_vars

NextScans ==
    \/ \E c \in Calls : ScanCall(c)
    \/ \E c \in Calls : ScanCallLine(c)
    \/ \E c \in Calls : ScanCallReturn(c)

SpecScans == InitScans /\ [][NextScans]_vars

(***************************************************************************)
(* The API server: api.py.  The handlers are coroutines without an await   *)
(* between their reads and writes of analysis_jobs, so each is one step; a *)
(* background task runs at some point after the response of its request.   *)
(* analyzer, lark_parser and webhook_sender are the objects lifespan made. *)
(***************************************************************************)
\* The clock counts half seconds.
TicksPerSecond == 2

\* completed_at = None
NoneTime == -1

Users == {"user1", "user2"}

\* f"analysis_{user_id}_{stamp}" and f"lark_{user_id}_{stamp}"
\* with stamp = utcnow().strftime('%Y%m%d_%H%M%S'): the instant cut to whole seconds.
AnalysisId(prefix, user_id, t) == [prefix |-> prefix, user_id |-> user_id, stamp |-> t \div TicksPerSecond]

\* AnalysisResponse(analysis_id=..., status="running", created_at=...)
AnalysisResponseOf(analysis_id, created_at, original_content) ==
    [analysis_id |-> analysis_id, status |-> "running", created_at |-> created_at,
     completed_at |-> NoneTime, original_content |-> original_content]

\* analysis_jobs[analysis_id] = job
SetItem(jobs, analysis_id, job) ==
    [k \in DOMAIN jobs \cup {analysis_id} |-> IF k = analysis_id THEN job ELSE jobs[k]]

\* run_analysis(analysis_id, report_data), the analysis having returned or
\* raised: the jobs after it, the notification it sends, and whether it
\* returns or raises.  Without the job, the read of analysis_jobs[analysis_id]
\* in the try block raises KeyError and so does the one in the except block.
run_analysis(jobs, analysis_id, analysis_raises, now) ==
    IF analysis_id \notin DOMAIN jobs
    THEN [jobs |-> jobs, sent |-> <<>>, state |-> "raised"]
    ELSE LET status == IF analysis_raises THEN "failed" ELSE "completed"
         IN  [jobs |-> [jobs EXCEPT ![analysis_id].status = status,
                                    ![analysis_id].completed_at = now],
              sent |-> <<[analysis_id |-> analysis_id, status |-> status]>>,
              state |-> "returned"]

InitJobs ==
    /\ JobsIdle
    /\ PollIdle
    /\ SendIdle
    /\ CorrIdle
    /\ ScanIdle
    /\ LookupIdle

\* POST /analyze
StartAnalysis ==
    /\ Len(background_tasks) < MaxRequests
    /\ \E user_id \in Users :
           LET analysis_id == AnalysisId("analysis", user_id, utcnow)
           IN  /\ analysis_jobs' = SetItem(analysis_jobs, analysis_id,
                                           AnalysisResponseOf(analysis_id, utcnow, NoneStr))
               /\ background_tasks' = Append(background_tasks,
                                             [analysis_id |-> analysis_id, state |-> "queued"])
    /\ UNCHANGED <<notifications, utcnow>>
    /\ UNCHANGED corr_vars
    /\ UNCHANGED scan_vars
    /\ UNCHANGED lookup_vars
    /\ UNCHANGED send_vars
    /\ UNCHANGED poll_vars

\* POST /webhook/lark, for a payload parse_lark_report accepts.
LarkWebhook ==
    /\ Len(background_tasks) < MaxRequests
    /\ \E user_id \in Users :
           LET analysis_id == AnalysisId("lark", user_id, utcnow)
           IN  /\ analysis_jobs' = SetItem(analysis_jobs, analysis_id,
                                           AnalysisResponseOf(analysis_id, utcnow, "lark_md"))
               /\ background_tasks' = Append(background_tasks,
                                             [analysis_id |-> analysis_id, state |-> "queued"])
    /\ UNCHANGED <<notifications, utcnow>>
    /\ UNCHANGED corr_vars
    /\ UNCHANGED scan_vars
    /\ UNCHANGED lookup_vars
    /\ UNCHANGED send_vars
    /\ UNCHANGED poll_vars

\* A background task runs run_analysis.
RunAnalysis ==
    /\ \E n \in 1..Len(background_tasks), analysis_raises \in BOOLEAN :
           /\ background_tasks[n].state = "queued"
           /\ LET r == run_analysis(analysis_jobs, background_tasks[n].analysis_id,
                                    analysis_raises, utcnow)
              IN  /\ analysis_jobs' = r.jobs
                  /\ notifications' = notifications \o r.sent
                  /\ background_tasks' = [background_tasks EXCEPT ![n].state = r.state]
    /\ UNCHANGED utcnow
    /\ UNCHANGED corr_vars
    /\ UNCHANGED scan_vars
    /\ UNCHANGED lookup_vars
    /\ UNCHANGED send_vars
    /\ UNCHANGED poll_vars

\* DELETE /analyze/{analysis_id}, for an id that is there.
DeleteAnalysis ==
    /\ \E analysis_id \in DOMAIN analysis_jobs :
           analysis_jobs' = [k \in DOMAIN analysis_jobs \ {analysis_id} |-> analysis_jobs[k]]
    /\ UNCHANGED <<background_tasks, notifications, utcnow>>
    /\ UNCHANGED corr_vars
    /\ UNCHANGED scan_vars
    /\ UNCHANGED lookup_vars
    /\ UNCHANGED send_vars
    /\ UNCHANGED poll_vars

\* Half a second passes.
Tick ==
    /\ utcnow < MaxClock
    /\ utcnow' = utcnow + 1
    /\ UNCHANGED <<analysis_jobs, background_tasks, notifications>>
    /\ UNCHANGED corr_vars
    /\ UNCHANGED scan_vars
    /\ UNCHANGED lookup_vars
    /\ UNCHANGED send_vars
    /\ UNCHANGED poll_vars

NextJobs == StartAnalysis \/ LarkWebhook \/ RunAnalysis \/ DeleteAnalysis \/ Tick

SpecJobs == InitJobs /\ [][NextJobs]_vars

(***************************************************************************)
(* The webhook sender: WebhookSender.__init__ and _send_with_retry.        *)
(***************************************************************************)
\* "x or default" of Python for an optional integer: None and 0 are falsy.
OrDefault(x, default) == IF x = NoneInt \/ x = 0 THEN default ELSE x

\* How a requests.post ends: a response with a status code and a body (JSON
\* with "code" 0, JSON with another code, not JSON), or an exception.
PostOutcomes ==
    {[kind |-> "response", status_code |-> 200, body |-> "code0"],
     [kind |-> "response", status_code |-> 200, body |-> "code1"],
     [kind |-> "response", status_code |-> 200, body |-> "text"],
     [kind |-> "response", status_code |-> 299, body |-> "code0"],
     [kind |-> "response", status_code |-> 300, body |-> "code0"],
     [kind |-> "Timeout", status_code |-> 0, body |-> "text"],
     [kind |-> "ConnectionError", status_code |-> 0, body |-> "text"],
     [kind |-> "Exception", status_code |-> 0, body |-> "text"]}

\* Mutant: a Lark webhook is taken to have succeeded on the status code alone.
AttemptSucceeds_StatusOnly(is_lark, outcome) ==
    /\ outcome.kind = "response"
    /\ 200 <= outcome.status_code /\ outcome.status_code < 300

\* The body of the try block of an attempt reaches "return True".
AttemptSucceeds(is_lark, outcome) ==
    /\ outcome.kind = "response"
    /\ 200 <= outcome.status_code /\ outcome.status_code < 300
    /\ is_lark => outcome.body = "code0"

\* WebhookSender(webhook_url, retries=retries_arg), then _send_with_retry is entered.
InitSend ==
    /\ retries_arg \in {NoneInt} \cup 0..MaxRetries
    /\ retries = OrDefault(retries_arg, WEBHOOK_RETRIES)
    /\ is_lark_webhook \in BOOLEAN
    /\ attempt = 0
    /\ responses = <<>>
    /\ send_pc = "loop"
    /\ send_result = NoneStr
    /\ JobsIdle
    /\ PollIdle
    /\ CorrIdle
    /\ ScanIdle
    /\ LookupIdle

\* One iteration of "for attempt in range(self.retries + 1)": the post, the
\* return on success, else the wait before the next attempt.
SendAttempt ==
    /\ send_pc = "loop"
    /\ attempt < retries + 1
    /\ \E outcome \in PostOutcomes :
           /\ responses' = Append(responses, outcome)
           /\ IF AttemptSucceeds(is_lark_webhook, outcome)
              THEN /\ send_result' = "True"
                   /\ send_pc' = "returned"
                   /\ attempt' = attempt
              ELSE /\ attempt' = attempt + 1
                   /\ UNCHANGED <<send_result, send_pc>>
    /\ UNCHANGED <<retries_arg, retries, is_lark_webhook>>
    /\ UNCHANGED job_vars
    /\ UNCHANGED corr_vars
    /\ UNCHANGED scan_vars
    /\ UNCHANGED lookup_vars
    /\ UNCHANGED poll_vars

\* "return False" after the loop.
SendReturnFalse ==
    /\ send_pc = "loop"
    /\ attempt = retries + 1
    /\ send_result' = "False"
    /\ send_pc' = "returned"
    /\ UNCHANGED <<retries_arg, retries, is_lark_webhook, attempt, responses>>
    /\ UNCHANGED job_vars
    /\ UNCHANGED corr_vars
    /\ UNCHANGED scan_vars
    /\ UNCHANGED lookup_vars
    /\ UNCHANGED poll_vars

NextSend == SendAttempt \/ SendReturnFalse

SpecSend == InitSend /\ [][NextSend]_vars

(***************************************************************************)
(* CloudWatchFinder._search_by_request_id_insights, poll by poll.          *)
(***************************************************************************)
\* Maximum wait time in seconds; a poll every second.
max_wait_time == 30

\* The statuses of a query that is neither complete nor failed.
PendingStatuses == {"Scheduled", "Running"}

\* Mutant: the loop goes on while elapsed_time is at most max_wait_time.
ShouldPoll_Inclusive(elapsed) == elapsed <= max_wait_time

\* "while elapsed_time < max_wait_time"
ShouldPoll(elapsed) == elapsed < max_wait_time

\* _search_by_request_id_insights is called for a query.
InitPoll ==
    /\ query \in {[request_id |-> r, start_time |-> s,
                   end_time |-> UTC_OFFSET_HOURS * 3600 + time_window_seconds] :
                      r \in {RidA, RidB, "zzz999"}, s \in {0, UTC_OFFSET_HOURS * 3600 + 250}}
    /\ elapsed_time = 0
    /\ polls = 0
    /\ query_status = NoneStr
    /\ poll_pc = "start"
    /\ poll_result = <<>>
    /\ JobsIdle
    /\ SendIdle
    /\ CorrIdle
    /\ ScanIdle
    /\ LookupIdle

\* start_query returns a query id; elapsed_time = 0.
StartQuery ==
    /\ poll_pc = "start"
    /\ poll_pc' = "poll"
    /\ elapsed_time' = 0
    /\ UNCHANGED <<query, polls, query_status, poll_result>>
    /\ UNCHANGED job_vars
    /\ UNCHANGED send_vars
    /\ UNCHANGED corr_vars
    /\ UNCHANGED scan_vars
    /\ UNCHANGED lookup_vars

\* start_query raises: the except clauses return [].
StartQueryRaises ==
    /\ poll_pc = "start"
    /\ \E e \in {"ClientError", "Exception"} : query_status' = e
    /\ poll_result' = <<>>
    /\ poll_pc' = "returned"
    /\ UNCHANGED <<query, elapsed_time, polls>>
    /\ UNCHANGED job_vars
    /\ UNCHANGED send_vars
    /\ UNCHANGED corr_vars
    /\ UNCHANGED scan_vars
    /\ UNCHANGED lookup_vars

\* A poll finds the query complete: the parsed results are returned.
PollComplete ==
    /\ poll_pc = "poll"
    /\ ShouldPoll(elapsed_time)
    /\ polls' = polls + 1
    /\ query_status' = "Complete"
    /\ poll_result' = _parse_insights_results(
                          QueryResults(LogEvents, query.request_id, query.start_time,
                                       query.end_time), "group")
    /\ poll_pc' = "returned"
    /\ UNCHANGED <<query, elapsed_time>>
    /\ UNCHANGED job_vars
    /\ UNCHANGED send_vars
    /\ UNCHANGED corr_vars
    /\ UNCHANGED scan_vars
    /\ UNCHANGED lookup_vars

\* A poll finds the query failed: [] is returned.
PollFailed ==
    /\ poll_pc = "poll"
    /\ ShouldPoll(elapsed_time)
    /\ polls' = polls + 1
    /\ query_status' = "Failed"
    /\ poll_result' = <<>>
    /\ poll_pc' = "returned"
    /\ UNCHANGED <<query, elapsed_time>>
    /\ UNCHANGED job_vars
    /\ UNCHANGED send_vars
    /\ UNCHANGED corr_vars
    /\ UNCHANGED scan_vars
    /\ UNCHANGED lookup_vars

\* A poll finds the query still running: sleep, then poll again.
PollPending ==
    /\ poll_pc = "poll"
    /\ ShouldPoll(elapsed_time)
    /\ polls' = polls + 1
    /\ query_status' \in PendingStatuses
    /\ elapsed_time' = elapsed_time + 1
    /\ UNCHANGED <<query, poll_pc, poll_result>>
    /\ UNCHANGED job_vars
    /\ UNCHANGED send_vars
    /\ UNCHANGED corr_vars
    /\ UNCHANGED scan_vars
    /\ UNCHANGED lookup_vars

\* get_query_results raises: the except clauses return [].
PollRaises ==
    /\ poll_pc = "poll"
    /\ ShouldPoll(elapsed_time)
    /\ polls' = polls + 1
    /\ \E e \in {"ClientError", "Exception"} : query_status' = e
    /\ poll_result' = <<>>
    /\ poll_pc' = "returned"
    /\ UNCHANGED <<query, elapsed_time>>
    /\ UNCHANGED job_vars
    /\ UNCHANGED send_vars
    /\ UNCHANGED corr_vars
    /\ UNCHANGED scan_vars
    /\ UNCHANGED lookup_vars

\* The loop ends without a completed query: "Query timed out", [] is returned.
PollTimedOut ==
    /\ poll_pc = "poll"
    /\ ~ShouldPoll(elapsed_time)
    /\ poll_result' = <<>>
    /\ poll_pc' = "returned"
    /\ UNCHANGED <<query, elapsed_time, polls, query_status>>
    /\ UNCHANGED job_vars
    /\ UNCHANGED send_vars
    /\ UNCHANGED corr_vars
    /\ UNCHANGED scan_vars
    /\ UNCHANGED lookup_vars

NextPoll ==
    \/ StartQuery
    \/ StartQueryRaises
    \/ PollComplete
    \/ PollFailed
    \/ PollPending
    \/ PollRaises
    \/ PollTimedOut

SpecPoll == InitPoll /\ [][NextPoll]_vars

\* The call is not suspended for ever: start_query, get_query_results and
\* time.sleep return or raise.
FairSpecPoll == SpecPoll /\ WF_vars(NextPoll)

(***************************************************************************)
(* Properties of the correlation table.                                    *)
(***************************************************************************)
TableBuilt == pc \in {"mappings", "export"}

\* The limit the call that filled the table passed to the table builder.
LimitUsed == IF pc = "export" THEN 3 ELSE max_correlations_per_error

\* The indices of the rows of the table that belong to a frontend error.
RowsOfError(frontend_error) ==
    {r \in 1..Len(correlations) :
        correlations[r].frontend_line_number = frontend_error.line_number}

HasBackend(row) == row.correlation_method # "no_correlation"

BackendFieldsEmpty(row) ==
    /\ row.backend_timestamp = EmptyIso
    /\ row.backend_message = <<>>
    /\ row.backend_log_group = EmptyStr
    /\ row.backend_log_stream = EmptyStr
    /\ row.backend_request_id = EmptyStr

\* C1: the table has at least as many rows as there are error records, and
\* every error record's line number appears in at least one row.
C1_Completeness ==
    TableBuilt =>
        /\ Len(correlations) >= Len(frontend_errors)
        /\ \A i \in 1..Len(frontend_errors) : RowsOfError(frontend_errors[i]) # {}

\* Two error records, one with several backend rows and one with none.
C1_Witness ==
    /\ TableBuilt
    /\ Len(frontend_errors) = 2
    /\ Len(correlations) > 2
    /\ \E r \in 1..Len(correlations) : ~HasBackend(correlations[r])

\* C2: an error record for which the matcher returns no match has exactly one
\* row, with all backend fields empty and correlation_method "no_correlation".
C2_NoMatchOneEmptyRow ==
    TableBuilt =>
        \A i \in 1..Len(frontend_errors) :
            _find_correlated_backends(frontend_errors[i], backend_logs, LimitUsed) = <<>>
            => /\ Cardinality(RowsOfError(frontend_errors[i])) = 1
               /\ \A r \in RowsOfError(frontend_errors[i]) :
                      /\ correlations[r].correlation_method = "no_correlation"
                      /\ BackendFieldsEmpty(correlations[r])

\* The identity of a backend entry in a row: its message, whitespace normalized.
BackendIdentity(row) == NormalizeWhitespace(row.backend_message)

\* C3: with global deduplication active, no backend entry (identified by its
\* whitespace-normalized message) appears in more than one row of the table.
C3_GlobalDeduplication ==
    (pc = "export" /\ global_deduplication) =>
        \A r1, r2 \in 1..Len(correlations) :
            (/\ HasBackend(correlations[r1])
             /\ HasBackend(correlations[r2])
             /\ BackendIdentity(correlations[r1]) = BackendIdentity(correlations[r2]))
            => r1 = r2

\* C6: for every limit N >= 1, the rows of one error record that carry a
\* backend entry are at most N.
C6_RowsPerErrorWithinLimit ==
    TableBuilt =>
        \A i \in 1..Len(frontend_errors) :
            Cardinality({r \in RowsOfError(frontend_errors[i]) : HasBackend(correlations[r])})
                <= LimitUsed

\* The backend request id is one of the error's request ids.
IdentifierMember(frontend_error, backend_log) ==
    /\ backend_log.request_id \notin {NoneStr, EmptyStr}
    /\ \E k \in 1..Len(frontend_error.request_ids) :
           frontend_error.request_ids[k] = backend_log.request_id

\* The pairs _check_correlation reports as an identifier match.
IdentifierMatch(frontend_error, backend_log) ==
    _check_correlation(frontend_error, backend_log).method = "request_id_match"

\* C7: among the rows of one error record every identifier match precedes every
\* time-proximity match, and when a time-proximity match was kept no identifier
\* match of the pool was dropped.
C7_IdentifierMatchesFirst ==
    TableBuilt =>
        \A i \in 1..Len(frontend_errors) :
            LET rows == RowsOfError(frontend_errors[i])
                idRows == {r \in rows : correlations[r].correlation_method = "request_id_match"}
                timeRows == {r \in rows : correlations[r].correlation_method = "time_based"}
            IN  /\ \A r1 \in idRows, r2 \in timeRows : r1 < r2
                /\ timeRows # {} =>
                       Cardinality(idRows) =
                           Cardinality({k \in 1..Len(backend_logs) :
                                           IdentifierMatch(frontend_errors[i], backend_logs[k])})

\* The pool lists a time-proximity match 240 s away before an identifier match
\* outside the window; truncated to one row, the identifier match is kept.
C7_Witness ==
    /\ pc = "mappings"
    /\ max_correlations_per_error = 1
    /\ Len(backend_logs) = 2
    /\ _check_correlation(frontend_errors[1], backend_logs[1]) = TimeBased(240)
    /\ backend_logs[2].timestamp = UTC_OFFSET_HOURS * 3600 + time_window_seconds + 1
    /\ Len(correlations) = 1
    /\ correlations[1].correlation_method = "request_id_match"
    /\ correlations[1].backend_timestamp = isoformat(backend_logs[2].timestamp)

\* C8: a backend entry whose request id is one of the error's request_ids is an
\* identifier match with that id as matched_request_id, whether the error's
\* timestamp is absent, unparseable or far from the backend timestamp; the rows
\* of the table say so as well.
C8_IdentifierMatchWhateverTheTime ==
    /\ \A i \in 1..Len(frontend_errors), k \in 1..Len(backend_logs) :
           IdentifierMember(frontend_errors[i], backend_logs[k]) =>
               LET info == _check_correlation(frontend_errors[i], backend_logs[k])
               IN  /\ info.method = "request_id_match"
                   /\ info.matched_request_id = backend_logs[k].request_id
    /\ TableBuilt =>
           \A i \in 1..Len(frontend_errors) :
               \A r \in RowsOfError(frontend_errors[i]) :
                   correlations[r].backend_request_id \in Range(frontend_errors[i].request_ids) =>
                       /\ correlations[r].correlation_method = "request_id_match"
                       /\ correlations[r].matched_request_id = correlations[r].backend_request_id

\* An error without a timestamp and an entry outside any window share an id, and
\* the table holds the identifier match.
C8_Witness ==
    /\ pc = "mappings"
    /\ Len(frontend_errors) = 1
    /\ frontend_errors[1].timestamp = NoneTs
    /\ frontend_errors[1].request_ids = <<RidB, RidA>>
    /\ Len(correlations) = 1
    /\ correlations[1].correlation_method = "request_id_match"
    /\ correlations[1].matched_request_id = RidA

Parseable(ts) == ts # NoneTs /\ \E i \in 1..Len(formats) : formats[i] = ts.fmt

\* |backend - (frontend + 4 h)| in seconds.
ShiftedDiff(frontend_secs, backend_secs) ==
    IF backend_secs - (frontend_secs + 4 * 3600) < 0
    THEN (frontend_secs + 4 * 3600) - backend_secs
    ELSE backend_secs - (frontend_secs + 4 * 3600)

C10_TableUsesShiftedTime ==
    TableBuilt =>
        \A r \in 1..Len(correlations) :
            LET row == correlations[r]
                d == ShiftedDiff(row.frontend_timestamp.secs, row.backend_timestamp.v)
            IN  /\ row.correlation_method \in {"time_based", "time_window"} => d <= 120 * 60
                /\ row.time_diff_seconds.kind # "empty" =>
                       row.time_diff_seconds.v \in {d, -d}

(***************************************************************************)
(* Properties of the scan.                                                 *)
(***************************************************************************)
\* The category of a line: that of the first rule matching it, "" if none.
Category(line) ==
    LET k == FirstMatch(compiled_patterns, line, 1)
    IN  IF k = 0 THEN EmptyStr ELSE compiled_patterns[k].error_type

\* The 1-based numbers of the scanned lines that are detected as errors.
DetectedLines ==
    {n \in 1..line_num : ~_should_exclude_line(lines[n]) /\ Category(lines[n]) # EmptyStr}

SignatureOfLine(n) ==
    _create_error_signature([error_type |-> Category(lines[n]), log_segment |-> lines[n]])

\* C4: no two records of the scan have the same normalized signature, each
\* record's line_number is that of the first line of the text producing its
\* signature, and every detected line's signature has a record.
C4_SignatureDeduplication ==
    /\ \A i, j \in 1..Len(errors) :
           _create_error_signature(errors[i]) = _create_error_signature(errors[j]) => i = j
    /\ \A i \in 1..Len(errors) :
           /\ errors[i].line_number \in DetectedLines
           /\ SignatureOfLine(errors[i].line_number) = _create_error_signature(errors[i])
           /\ \A n \in DetectedLines :
                  SignatureOfLine(n) = _create_error_signature(errors[i])
                  => errors[i].line_number <= n
    /\ \A n \in DetectedLines :
           \E i \in 1..Len(errors) : _create_error_signature(errors[i]) = SignatureOfLine(n)

\* The same error twice, with another timestamp, number and spacing the second
\* time, and another error between them: one record for it, on line 1.
C4_Witness ==
    /\ scan_pc = "done"
    /\ Len(lines) = 3
    /\ lines[1] # lines[3]
    /\ DetectedLines = {1, 2, 3}
    /\ SignatureOfLine(1) = SignatureOfLine(3)
    /\ Len(errors) = 2
    /\ errors[1].line_number = 1
    /\ errors[2].line_number = 2

\* The lines the claim names: an info/debug marker, "errorCallback",
\* "error: true".
NamedExclusion(line) ==
    \/ \E i \in 1..Len(line) : line[i] \in {"[I]", "[INFO]", "[D]", "[DEBUG]", "[TRACE]"}
    \/ \E i \in 1..Len(line) : line[i] = "errorCallback"
    \/ \E i \in 1..Len(line) : i + 2 <= Len(line) /\ SubSeq(line, i, i + 2) = <<"error:", Space, "true">>

\* C5: a line for which the exclusion check is true never produces an error
\* record, whatever category patterns it also matches.
C5_ExcludedLinesYieldNoRecord ==
    \A i \in 1..Len(errors) :
        /\ ~_should_exclude_line(lines[errors[i].line_number])
        /\ ~NamedExclusion(lines[errors[i].line_number])

\* A scan over an excluded line that matches a category pattern, followed by a
\* detected line: the only record is for the second.
C5_Witness ==
    /\ scan_pc = "done"
    /\ Len(lines) >= 2
    /\ _should_exclude_line(lines[1])
    /\ Category(lines[1]) = "LOG_LEVEL_ERROR"
    /\ Len(errors) = 1
    /\ errors[1].line_number = 2

(***************************************************************************)
(* Properties of the rows and of the order of the matches.                 *)
(***************************************************************************)
\* The rows of the time-proximity methods: the matcher's "time_based" and the
\* table builder's "time_window".
TimeProximityMethods == {"time_based", "time_window"}

\* C11: every row whose method is the identifier match has a non-empty
\* matched_request_id, and every row whose method is time proximity has a
\* non-empty time_diff_seconds and an empty matched_request_id.
C11_MethodFields ==
    TableBuilt =>
        \A r \in 1..Len(correlations) :
            LET row == correlations[r]
            IN  /\ row.correlation_method = "request_id_match" =>
                       row.matched_request_id \notin {EmptyStr, NoneStr}
                /\ row.correlation_method \in TimeProximityMethods =>
                       /\ row.time_diff_seconds # EmptyDiff
                       /\ row.matched_request_id = EmptyStr

\* One error has an identifier-match row and a time-proximity row.
C11_Witness ==
    /\ pc = "mappings"
    /\ Len(correlations) = 2
    /\ correlations[1].correlation_method = "request_id_match"
    /\ correlations[1].matched_request_id = RidA
    /\ correlations[2].correlation_method = "time_based"
    /\ correlations[2].time_diff_seconds = FloatDiff(240)

\* The severity of a message: ERROR 4, WARN/WARNING 3, INFO 2, DEBUG 1, else 0.
Severity(message) ==
    IF \E i \in 1..Len(message) : message[i] \in {"ERROR", "error"} THEN 4
    ELSE IF \E i \in 1..Len(message) : message[i] \in {"WARN", "warn", "WARNING", "warning"} THEN 3
    ELSE IF \E i \in 1..Len(message) : message[i] \in {"INFO", "info"} THEN 2
    ELSE IF \E i \in 1..Len(message) : message[i] \in {"DEBUG", "debug"} THEN 1
    ELSE 0

\* (d1, m1) is not after (d2, m2) in the order: nearer, or as near and at least
\* as severe.
NotAfter(d1, m1, d2, m2) == d1 < d2 \/ (d1 = d2 /\ Severity(m1) >= Severity(m2))

\* The backend entry of the pool that a row shows.
RowShows(row, backend_log) ==
    /\ row.backend_timestamp = isoformat(backend_log.timestamp)
    /\ row.backend_message = Strip(backend_log.message)

C13_NoTimeBasedWithoutTimestamp ==
    TableBuilt =>
        \A i \in 1..Len(frontend_errors) :
            ~Parseable(frontend_errors[i].timestamp) =>
                LET rows == RowsOfError(frontend_errors[i])
                IN  \/ \A r \in rows : correlations[r].correlation_method = "request_id_match"
                    \/ /\ Cardinality(rows) = 1
                       /\ \A r \in rows : correlations[r].correlation_method = "no_correlation"

\* An error with an unparseable timestamp and entries the same string would
\* reach if it parsed: one no_correlation row.
C13_Witness ==
    /\ pc = "mappings"
    /\ Len(frontend_errors) = 1
    /\ frontend_errors[1].timestamp = UnparseableTs
    /\ Len(backend_logs) = 2
    /\ backend_logs[1].timestamp = 240
    /\ backend_logs[2].timestamp = UTC_OFFSET_HOURS * 3600 + 240
    /\ Len(correlations) = 1
    /\ correlations[1].correlation_method = "no_correlation"


(***************************************************************************)
(* Properties of the window parameter, of the request ids of a record and  *)
(* of the rule list.                                                       *)
(***************************************************************************)
\* C15: a zero or negative request_id_context_lines is rejected before any
\* scanning is done: no line is examined and no record is produced with it.
C15_NonPositiveWindowRejected ==
    request_id_context_lines <= 0 => (line_num = 0 /\ errors = <<>>)

\* The lines of the window of request_id_context_lines around a record's line.
RequestIdWindow(error) ==
    {n \in 1..Len(lines) :
        /\ n >= error.line_number - request_id_context_lines
        /\ n <= error.line_number + request_id_context_lines}

\* The pairs (line, position) at which an id is written after a key in the
\* window, and the id written there.
IdOccurrences(error) ==
    {o \in UNION {{<<n, p>> : p \in 1..Len(lines[n])} : n \in RequestIdWindow(error)} :
        /\ \E i \in 1..(o[2] - 1) :
               /\ Lower(lines[o[1]][i]) \in {"request_id:", "req_id=", "requestid="}
               /\ \A j \in (i + 1)..(o[2] - 1) : lines[o[1]][j] = Space
        /\ lines[o[1]][o[2]] # Space}

IdAt(o) == lines[o[1]][o[2]]

Before(o1, o2) == o1[1] < o2[1] \/ (o1[1] = o2[1] /\ o1[2] < o2[2])

\* The first place of the window at which an id is written.
FirstSeen(error, id) ==
    CHOOSE o \in IdOccurrences(error) :
        /\ IdAt(o) = id
        /\ \A o2 \in IdOccurrences(error) : IdAt(o2) = id => ~Before(o2, o)

\* Non-empty, not one of null/none/undefined/nil/empty in any case, and of at
\* least 6 characters.
ValidIdentifier(id) ==
    /\ id # ""
    /\ \A w \in {"null", "none", "undefined", "nil", "empty"} : Lower(id) # w
    /\ Len(id) >= 6

\* C16: every id of a record's request_ids is valid, no id is there twice, the
\* ids are those written in the scanned window, and they appear in the order
\* in which the window first shows them.
C16_RequestIdsValidDistinctOrdered ==
    \A e \in 1..Len(errors) :
        LET ids == errors[e].request_ids
        IN  /\ \A a \in 1..Len(ids) : ValidIdentifier(ids[a])
            /\ \A a, b \in 1..Len(ids) : ids[a] = ids[b] => a = b
            /\ \A a \in 1..Len(ids) : \E o \in IdOccurrences(errors[e]) : IdAt(o) = ids[a]
            /\ \A o \in IdOccurrences(errors[e]) :
                   ValidIdentifier(IdAt(o)) => \E a \in 1..Len(ids) : ids[a] = IdAt(o)
            /\ \A a, b \in 1..Len(ids) :
                   a < b => Before(FirstSeen(errors[e], ids[a]), FirstSeen(errors[e], ids[b]))

\* The window of an error line starts with a line holding an invalid id and
\* the id the error line shows last, and the error line holds a too short id:
\* the record has the two valid ids, the earlier line's first.
C16_Witness ==
    /\ scan_pc = "done"
    /\ request_id_context_lines = 1
    /\ Len(lines) = 2
    /\ lines[1] = <<"req_id=", "None", Space, "request_id:", Space, RidA>>
    /\ Len(errors) = 1
    /\ errors[1].line_number = 2
    /\ errors[1].request_ids = <<RidA, "abc123">>
    /\ errors[1].request_id = RidA

\* The rule that decides the category of a line: the first of the list, in
\* list order, that the line matches.
FirstRule(patterns, line) ==
    IF \E k \in 1..Len(patterns) : Search(patterns[k], line)
    THEN CHOOSE k \in 1..Len(patterns) :
             /\ Search(patterns[k], line)
             /\ \A j \in 1..(k - 1) : ~Search(patterns[j], line)
    ELSE 0

\* The scanned lines a built-in rule matches.
BuiltInLines == {n \in 1..line_num : FirstRule(error_patterns, lines[n]) # 0}

LookupFailed ==
    \/ lookup_status = "raised"
    \/ /\ lookup_status = "returned"
       /\ searches # <<>>
       /\ \A i \in 1..Len(searches) : searches[i].outcome # "Complete"

CapturedIdentifiers ==
    UNION {Range(FindAll(lines[n], 1)) : n \in 1..Len(lines)}

\* C17: the scanner's _is_valid_request_id and the backend-side
\* _is_valid_request_id_for_search and _is_valid_request_id_for_extraction give
\* the same verdict on every identifier: on the empty string, on every string
\* the scanned text holds after a request-id key, and so on every id of a
\* record handed to the lookup.
C17_ValidityPredicatesAgree ==
    \A id \in CapturedIdentifiers \cup {EmptyStr} :
        /\ _is_valid_request_id(id) <=> _is_valid_request_id_for_search(id)
        /\ _is_valid_request_id(id) <=> _is_valid_request_id_for_extraction(id)

\* A scanned text that holds a placeholder, an id of five characters, an id of
\* six characters and a longer id, of which the record keeps the last two.
C17_Witness ==
    /\ scan_pc = "done"
    /\ {"None", "abc12", "abc123", RidA} \subseteq CapturedIdentifiers
    /\ \E e \in 1..Len(errors) : Range(errors[e].request_ids) = {"abc123", RidA}
    /\ ~_is_valid_request_id_for_search("abc12")
    /\ ~_is_valid_request_id_for_extraction("None")
    /\ _is_valid_request_id_for_search("abc123")


\* The request ids of an error record: its request_ids, or its request_id
\* field when the list is empty; and those of them that are valid.
IdsOf(error) ==
    IF error.request_ids # <<>> THEN Range(error.request_ids)
    ELSE {error.request_id} \ {NoneStr}

ValidIdsOf(error) == {id \in IdsOf(error) : ValidIdentifier(id)}

\* The searches the lookup issued for an error record.
SearchesOf(error) == {k \in 1..Len(searches) : searches[k].line_number = error.line_number}

\* The searches of an error record are one per distinct valid id, each over
\* [t - w, t + w] for the offset-corrected instant t of the timestamp.
OneSearchPerValidId(error) ==
    LET t == error.timestamp.secs + EDT_OFFSET_HOURS * 3600
        w == time_window_minutes * 60
    IN  /\ \A id \in ValidIdsOf(error) :
               Cardinality({k \in SearchesOf(error) : searches[k].request_id = id}) = 1
        /\ \A k \in SearchesOf(error) :
               /\ searches[k].request_id \in ValidIdsOf(error)
               /\ searches[k].start_time = t - w
               /\ searches[k].end_time = t + w

\* C18 as stated: for each error record the lookup issues exactly one search
\* per distinct valid request id of the record, over [t - w, t + w], none for an
\* invalid id and none when the record has no request id.
C18_OneSearchPerValidIdOfEachError ==
    lookup_status = "returned" =>
        \A i \in 1..Len(frontend_errors) : OneSearchPerValidId(frontend_errors[i])

\* C18, amended: for each error record whose timestamp can be parsed the
\* lookup issues exactly one search per distinct valid request id of the
\* record, over [t - w, t + w] around its offset-corrected timestamp t, none for
\* an invalid id and none when the record has no request id; for a record
\* whose timestamp is missing or cannot be parsed it issues no search.
C18_OneSearchPerValidIdOfTimedError ==
    lookup_status = "returned" =>
        \A i \in 1..Len(frontend_errors) :
            IF _parse_timestamp(frontend_errors[i].timestamp).ok
            THEN OneSearchPerValidId(frontend_errors[i])
            ELSE SearchesOf(frontend_errors[i]) = {}

\* A lookup over a record with two valid ids, searched once each, and a
\* record with an id of five characters, not searched.
C18_Witness ==
    /\ lookup_status = "returned"
    /\ time_window_minutes = 4
    /\ Len(frontend_errors) = 2
    /\ frontend_errors[1].request_ids = <<RidB, RidA>>
    /\ frontend_errors[2].request_ids = <<"abc12">>
    /\ Len(searches) = 2
    /\ searches[1].request_id = RidB /\ searches[2].request_id = RidA
    /\ searches[1].start_time = EDT_OFFSET_HOURS * 3600 - 240
    /\ searches[1].end_time = EDT_OFFSET_HOURS * 3600 + 240


(***************************************************************************)
(* Properties of calls of scan_for_errors that run together.               *)
(***************************************************************************)
\* The records of a scan of a text made alone, from its first line on.
RECURSIVE ScanAlone(_, _, _, _, _, _)
ScanAlone(patterns, text, context_lines, errs, seen, n) ==
    IF n = Len(text) THEN errs
    ELSE LET r == scan_line(patterns, text, context_lines, errs, seen, n, text[n + 1])
         IN  ScanAlone(patterns, text, context_lines, r.errors, r.seen_errors, n + 1)

\* C19: the list a call of scan_for_errors returns is the list a scan of its
\* text alone gives, with its window and the rule table, whatever other calls
\* ran before it or between its steps; so two calls on the same text with the
\* same window return the same ordered list.
C19_ScanDependsOnInputsOnly ==
    /\ \A c \in Calls :
           calls[c].pc = "done" =>
               calls[c].errors = ScanAlone(compiled_patterns, calls[c].lines,
                                           calls[c].request_id_context_lines, <<>>, {}, 0)
    /\ \A c, d \in Calls :
           (/\ calls[c].pc = "done" /\ calls[d].pc = "done"
            /\ calls[c].lines = calls[d].lines
            /\ calls[c].request_id_context_lines = calls[d].request_id_context_lines)
           => calls[c].errors = calls[d].errors

\* Two finished calls on the same three-line text, each with the two records
\* of its text, and between them a call on another text that has recorded the
\* signature they share.
C19_Witness ==
    /\ calls[1].pc = "done" /\ calls[3].pc = "done"
    /\ calls[1].lines = calls[3].lines
    /\ Len(calls[1].lines) = 3
    /\ calls[1].request_id_context_lines = calls[3].request_id_context_lines
    /\ Len(calls[1].errors) = 2
    /\ calls[3].errors = calls[1].errors
    /\ calls[2].pc = "loop"
    /\ calls[2].lines # calls[1].lines
    /\ calls[2].seen_errors \cap calls[1].seen_errors # {}


(***************************************************************************)
(* Properties of the timestamp and the order of the scanner's records.     *)
(***************************************************************************)
\* The lines of the text from two before the error line to two after it.
TimestampWindow(error) ==
    {n \in 1..Len(lines) : n >= error.line_number - 2 /\ n <= error.line_number + 2}

HasStamp(line) == \E i \in 1..Len(line) : line[i] \in {Stamp1, Stamp2}

FirstStamp(line) ==
    line[CHOOSE i \in 1..Len(line) :
             /\ line[i] \in {Stamp1, Stamp2}
             /\ \A j \in 1..(i - 1) : line[j] \notin {Stamp1, Stamp2}]

\* C21: the timestamp of a record at line c is the first timestamp of the
\* lines c-2 .. c+2 of the text (clamped to the text), whatever the request-id
\* window is; None when none of these lines has one.  A timestamp that occurs
\* only on line c+2 is extracted.
C21_TimestampWindowSymmetric ==
    \A e \in 1..Len(errors) :
        LET stamped == {n \in TimestampWindow(errors[e]) : HasStamp(lines[n])}
        IN  IF stamped = {} THEN errors[e].timestamp = NoneTs
            ELSE errors[e].timestamp =
                     StampString(FirstStamp(lines[CHOOSE n \in stamped : \A m \in stamped : n <= m]))

\* C22: the records of a scan have strictly increasing line numbers, all of
\* lines already scanned: a line yields at most one record and the records are
\* in the order of their lines.
C22_LineNumbersIncrease ==
    /\ \A a, b \in 1..Len(errors) : a < b => errors[a].line_number < errors[b].line_number
    /\ \A a \in 1..Len(errors) : errors[a].line_number \in 1..line_num

\* A finished scan of three lines with a record for the first and the third
\* line and none for the second, which two rules match.
C22_Witness ==
    /\ scan_pc = "done"
    /\ Len(lines) = 3
    /\ Len(errors) = 2
    /\ errors[1].line_number = 1
    /\ errors[2].line_number = 3
    /\ Cardinality({k \in 1..Len(compiled_patterns) : Search(compiled_patterns[k], lines[1])}) >= 2

C24_MatcherUsesCallerWindow ==
    (pc = "mappings" /\ lookup_status = "returned") =>
        \A r \in 1..Len(correlations) :
            correlations[r].correlation_method = "time_based" =>
                correlations[r].time_diff_seconds.v <= time_window_minutes * 60

(***************************************************************************)
(* Properties of the jobs of the API server.                               *)
(***************************************************************************)
Terminal == {"completed", "failed"}

\* C25: a job enters analysis_jobs with status "running"; its status changes at
\* most once, from "running" to "completed" or "failed", and a terminal status
\* is never left; completed_at is set exactly when the status is terminal.
C25_JobLifecycle ==
    [][\A id \in DOMAIN analysis_jobs' :
           /\ analysis_jobs'[id].status \in {"running"} \cup Terminal
           /\ analysis_jobs'[id].completed_at # NoneTime <=> analysis_jobs'[id].status \in Terminal
           /\ id \notin DOMAIN analysis_jobs => analysis_jobs'[id].status = "running"
           /\ id \in DOMAIN analysis_jobs =>
                  \/ analysis_jobs'[id].status = analysis_jobs[id].status
                  \/ /\ analysis_jobs[id].status = "running"
                     /\ analysis_jobs'[id].status \in Terminal]_vars

\* C26: no two accepted requests have the same analysis id, so no request
\* replaces the job entry of an earlier one and no two background tasks
\* update the same job.
C26_AnalysisIdsDistinct ==
    \A m, n \in 1..Len(background_tasks) :
        m # n => background_tasks[m].analysis_id # background_tasks[n].analysis_id

\* The notifications sent for an analysis id.
NotificationsFor(analysis_id) ==
    {k \in 1..Len(notifications) : notifications[k].analysis_id = analysis_id}

\* C27: a background task that has ended, its job deleted before or not, has
\* returned and has not raised, and exactly one notification was sent for its
\* analysis id (stated for the ids only one request has).
C27_TaskOfDeletedJobEndsCleanly ==
    \A n \in 1..Len(background_tasks) :
        (/\ background_tasks[n].state # "queued"
         /\ \A m \in 1..Len(background_tasks) :
                m # n => background_tasks[m].analysis_id # background_tasks[n].analysis_id)
        => /\ background_tasks[n].state = "returned"
           /\ Cardinality(NotificationsFor(background_tasks[n].analysis_id)) = 1

(***************************************************************************)
(* Properties of the webhook sender.                                       *)
(***************************************************************************)
\* A delivery attempt succeeded: a 2xx status and, for a Lark webhook, a JSON
\* body with code 0.
Delivered(outcome) ==
    /\ outcome.kind = "response"
    /\ outcome.status_code \in 200..299
    /\ is_lark_webhook => outcome.body = "code0"

\* C28: _send_with_retry makes at most retries + 1 attempts and none after a
\* successful one; it returns True exactly when an attempt succeeded, and
\* returns False, without raising, after retries + 1 attempts that failed.
C28_BoundedRetry ==
    /\ Len(responses) <= retries + 1
    /\ \A i \in 1..(Len(responses) - 1) : ~Delivered(responses[i])
    /\ send_pc \in {"loop", "returned"}
    /\ send_pc = "loop" => send_result = NoneStr
    /\ send_pc = "returned" =>
           /\ send_result \in {"True", "False"}
           /\ send_result = "True" <=> \E i \in 1..Len(responses) : Delivered(responses[i])
           /\ send_result = "False" => Len(responses) = retries + 1

\* A Lark sender with retries = 2 returns True on its third attempt, after a
\* 2xx response with another code and a timeout.
C28_Witness ==
    /\ send_pc = "returned"
    /\ send_result = "True"
    /\ is_lark_webhook
    /\ retries = 2
    /\ Len(responses) = 3
    /\ responses[1] = [kind |-> "response", status_code |-> 200, body |-> "code1"]
    /\ responses[2].kind = "Timeout"

\* C30: the sender uses the retries value its constructor was given: it makes
\* no more than that many attempts plus one, so a sender constructed with
\* retries = 0 makes one attempt and never a second.
C30_ConstructorRetriesUsed ==
    retries_arg # NoneInt =>
        /\ Len(responses) <= retries_arg + 1
        /\ send_result = "False" => Len(responses) = retries_arg + 1

(***************************************************************************)
(* Properties of the polled search.                                        *)
(***************************************************************************)
\* What the search may return for its query once the query is complete.
ParsedEntries ==
    _parse_insights_results(
        QueryResults(LogEvents, query.request_id, query.start_time, query.end_time), "group")

\* The search polls at most 30 times; what it returns is the parsed entries
\* after a poll that found Complete, and the empty list after Failed, after an
\* exception, and after 30 polls that found the query pending.
PollBoundedAndResultByStatus ==
    /\ polls <= 30
    /\ poll_pc # "returned" => poll_result = <<>>
    /\ poll_pc = "returned" =>
           /\ query_status = "Complete" => poll_result = ParsedEntries
           /\ query_status # "Complete" => poll_result = <<>>
           /\ query_status \in {"Complete", "Failed", "ClientError", "Exception"}
                  \/ (query_status \in PendingStatuses /\ polls = 30)

\* C29: _search_by_request_id_insights always terminates: it polls the status
\* of the query at most 30 times, returns parsed entries only after a poll that
\* found Complete, and returns the empty list on Failed, on any exception and
\* when 30 polls pass without completion.
C29_SearchTerminates ==
    /\ []PollBoundedAndResultByStatus
    /\ <>(poll_pc = "returned")

\* The thirtieth poll finds the query complete and entries are returned.
C29_Witness ==
    /\ poll_pc = "returned"
    /\ polls = 30
    /\ query_status = "Complete"
    /\ poll_result # <<>>

====
